---- MODULE Spec2Model ----
(***************************************************************************)
(* TAMS anomaly scoring: the Prediction Engine of tams-model/predictor.py  *)
(* (class TAMSPredictor and the module-level instance `predictor`).        *)
(*                                                                         *)
(* Text is modelled as a sequence of one-character strings, so that        *)
(* str.lower() and the substring test `keyword in description` are         *)
(* computed, not assumed.  Numbers produced by the estimator are modelled  *)
(* in half units (the integer h stands for the float h/2), so that         *)
(* round() meets exact halves; the value NaN stands for every float that   *)
(* int(round(.)) rejects.                                                  *)
(***************************************************************************)
EXTENDS Integers, Sequences, FiniteSets, TLC

VARIABLES
    artifact,                \* what is stored at model_path (fixed for the process)
    DEPENDENCIES_AVAILABLE,  \* predictor.py:15/20, set by the import block
    PYTHONHASHSEED,          \* the process's str-hash seed (fixed for the process)
    predictor,               \* predictor.py:562, the module-level TAMSPredictor
    call,                    \* the last call made on the engine and what it returned
    prev,                    \* the call before it (only kept by the specifications that compare calls)
    threads,                 \* the calls in progress, one frame per thread (concurrent calls only)
    api                      \* the HTTP request being served by main.py, and its response

vars == <<artifact, DEPENDENCIES_AVAILABLE, PYTHONHASHSEED, predictor, call, prev, threads, api>>

(***************************************************************************)
(* Bounds of the model                                                     *)
(***************************************************************************)
\* longest description, in words, given to the Rule-Based Scorer on its own
MaxWords == 2
\* longest list of records given to predict_batch
MaxBatch == 3
\* most entries of a mapping, list or tuple stored as the artifact
MaxItems == 2

None == "None"

(***************************************************************************)
(* Python objects are records with a field `type`.                         *)
(***************************************************************************)
PyNone == [type |-> "NoneType"]
PyDict(items) == [type |-> "dict", items |-> items]       \* items: <<[key, value], ...>> in insertion order
PyList(items) == [type |-> "list", items |-> items]
PyTuple(items) == [type |-> "tuple", items |-> items]
PyInt(n) == [type |-> "int", value |-> n]
Item(key, value) == [key |-> key, value |-> value]

\* bool(obj)
truthy(obj) ==
    CASE obj.type = "NoneType" -> FALSE
      [] obj.type \in {"dict", "list", "tuple"} -> Len(obj.items) > 0
      [] obj.type = "int" -> obj.value # 0
      [] obj.type = "object" -> obj.truthy
      [] OTHER -> TRUE

(***************************************************************************)
(* Text                                                                    *)
(***************************************************************************)
ASCII_UPPER == <<"A","B","C","D","E","F","G","H","I","J","K","L","M","N","O","P","Q","R","S","T","U","V","W","X","Y","Z">>
ASCII_LOWER == <<"a","b","c","d","e","f","g","h","i","j","k","l","m","n","o","p","q","r","s","t","u","v","w","x","y","z">>

\* the lower-case letter of each upper-case letter
LOWER_OF ==
    [c \in {ASCII_UPPER[i] : i \in DOMAIN ASCII_UPPER} |->
        ASCII_LOWER[CHOOSE i \in DOMAIN ASCII_UPPER : ASCII_UPPER[i] = c]]

\* one character of str.lower()
lower_char(c) == IF c \in DOMAIN LOWER_OF THEN LOWER_OF[c] ELSE c

\* str.lower()
lower(s) == [i \in DOMAIN s |-> lower_char(s[i])]

\* the Python test `k in s` on two strings
contains(s, k) ==
    \E i \in 0..(Len(s) - Len(k)) : \A j \in 1..Len(k) : s[i + j] = k[j]

\* dict.get(key, default)
Get(d, key, default) == IF key \in DOMAIN d THEN d[key] ELSE default

min(a, b) == IF a < b THEN a ELSE b
max(a, b) == IF a > b THEN a ELSE b

(***************************************************************************)
(* Rule-Based Scorer: TAMSPredictor._fallback_prediction                   *)
(***************************************************************************)
critical_keywords ==
    << <<"f","a","i","l","u","r","e">>, <<"b","r","o","k","e","n">>, <<"l","e","a","k">>,
       <<"f","i","r","e">>, <<"e","x","p","l","o","s","i","o","n">>,
       <<"p","r","e","s","s","u","r","e">>, <<"o","v","e","r","h","e","a","t">> >>
medium_keywords ==
    << <<"w","e","a","r">>, <<"d","r","i","f","t">>,
       <<"i","r","r","e","g","u","l","a","r","i","t","i","e","s">>,
       <<"d","r","o","p">>, <<"i","s","s","u","e">> >>
low_keywords ==
    << <<"c","a","l","i","b","r","a","t","i","o","n">>,
       <<"m","a","i","n","t","e","n","a","n","c","e">>, <<"c","h","e","c","k">> >>

kw_electrical == <<"e","l","e","c","t","r","i","c","a","l">>
kw_hydraulic == <<"h","y","d","r","a","u","l","i","c">>
kw_pneumatic == <<"p","n","e","u","m","a","t","i","c">>

\* any(keyword in text for keyword in keywords)
any_keyword_in(keywords, text) ==
    \E i \in DOMAIN keywords : contains(text, keywords[i])

\* the dict every prediction returns
ScoreResult(f, d, p, c) ==
    [ai_fiabilite_integrite_score |-> f,
     ai_disponibilite_score |-> d,
     ai_process_safety_score |-> p,
     ai_criticality_level |-> c]

\* the keyword classes tried in the order medium, critical, low
base_scores_medium_first(description) ==
    IF any_keyword_in(medium_keywords, description) THEN <<3, 3, 3>>
    ELSE IF any_keyword_in(critical_keywords, description) THEN <<4, 4, 5>>
    ELSE IF any_keyword_in(low_keywords, description) THEN <<2, 2, 2>>
    ELSE <<3, 3, 3>>

\* lines 323-343: the three scores before the system adjustment
base_scores(description) ==
    IF any_keyword_in(critical_keywords, description) THEN <<4, 4, 5>>
    ELSE IF any_keyword_in(medium_keywords, description) THEN <<3, 3, 3>>
    ELSE IF any_keyword_in(low_keywords, description) THEN <<2, 2, 2>>
    ELSE <<3, 3, 3>>

\* the adjustments without their cap at 5
system_adjust_uncapped(scores, system) ==
    IF contains(system, kw_electrical)
    THEN <<scores[1], scores[2], scores[3] + 1>>
    ELSE IF contains(system, kw_hydraulic) \/ contains(system, kw_pneumatic)
    THEN <<scores[1], scores[2] + 1, scores[3]>>
    ELSE scores

\* lines 346-350: at most one adjustment, by the system text
system_adjust(scores, system) ==
    IF contains(system, kw_electrical)
    THEN <<scores[1], scores[2], min(5, scores[3] + 1)>>
    ELSE IF contains(system, kw_hydraulic) \/ contains(system, kw_pneumatic)
    THEN <<scores[1], min(5, scores[2] + 1), scores[3]>>
    ELSE scores

\* a scorer that keeps its scores between calls: it starts from the scores of
\* the remembered earlier scoring instead of from the keyword class
_fallback_prediction_stateful(self, anomaly_data) ==
    LET description == lower(Get(anomaly_data, "description", <<>>))
        system == lower(Get(anomaly_data, "systeme", <<>>))
        start == IF prev.op = "_fallback_prediction"
                 THEN <<prev.ret.val.ai_fiabilite_integrite_score,
                        prev.ret.val.ai_disponibilite_score,
                        prev.ret.val.ai_process_safety_score>>
                 ELSE base_scores(description)
        s == system_adjust(start, system)
    IN ScoreResult(s[1], s[2], s[3], s[1] + s[2] + s[3])

\* a scorer that sums the scores before it adjusts them by the system
_fallback_prediction_sum_first(self, anomaly_data) ==
    LET description == lower(Get(anomaly_data, "description", <<>>))
        system == lower(Get(anomaly_data, "systeme", <<>>))
        b == base_scores(description)
        s == system_adjust(b, system)
    IN ScoreResult(s[1], s[2], s[3], b[1] + b[2] + b[3])

\* _fallback_prediction, lines 318-359
_fallback_prediction(self, anomaly_data) ==
    LET description == lower(Get(anomaly_data, "description", <<>>))
        system == lower(Get(anomaly_data, "systeme", <<>>))
        s == system_adjust(base_scores(description), system)
    IN ScoreResult(s[1], s[2], s[3], s[1] + s[2] + s[3])

(***************************************************************************)
(* Exceptions: an operation either returns a value or raises               *)
(***************************************************************************)
Ok(v) == [exc |-> FALSE, val |-> v]
Raised == [exc |-> TRUE, val |-> None]

(***************************************************************************)
(* Numbers returned by an estimator.  F(h) is the float h/2; NaN stands    *)
(* for nan and +-inf, on which int(round(.)) raises.                       *)
(***************************************************************************)
F(h) == [nan |-> FALSE, h |-> h]
NaN == [nan |-> TRUE, h |-> 0]

\* round(x) of Python 3 on the float h/2: nearest integer, ties to even
py_round(h) ==
    LET q == h \div 2
    IN IF h % 2 = 0 THEN q
       ELSE IF q % 2 = 0 THEN q ELSE q + 1

\* int(round(v)) without the clamp
clamp_round_unclamped(lo, hi, v) ==
    IF v.nan THEN Raised ELSE Ok(py_round(v.h))

\* max(lo, min(hi, int(round(v)))), lines 382-384, 389 and their copies
clamp_round(lo, hi, v) ==
    IF v.nan THEN Raised ELSE Ok(max(lo, min(hi, py_round(v.h))))

(***************************************************************************)
(* What model.predict(X) returns.                                          *)
(*   kind "raise": the call raised                                         *)
(*   kind "list" : a Python list of lists (no .shape), rows its elements   *)
(*   kind "arr1" : a 1-D float array; each row holds one scalar            *)
(*   kind "arr2" : a 2-D float array with ncols columns                    *)
(*   kind "obj"  : a 1-D object array whose elements are 1-D float arrays  *)
(*                 of any lengths                                          *)
(*   kind "arr3" : a 3-D float array; each row stands for a 2-D element    *)
(*                 (two columns or more), of which only the length counts  *)
(***************************************************************************)
Prediction(kind, ncols, rows) == [kind |-> kind, ncols |-> ncols, rows |-> rows]
PredictRaises == Prediction("raise", 0, <<>>)

has_shape(p) == p.kind \in {"arr1", "arr2", "obj", "arr3"}

\* prediction.shape
shape(p) ==
    CASE p.kind = "arr1" -> <<Len(p.rows)>>
      [] p.kind = "obj" -> <<Len(p.rows)>>
      [] p.kind = "arr2" -> <<Len(p.rows), p.ncols>>
      [] p.kind = "arr3" -> <<Len(p.rows), p.ncols, 2>>

\* a conversion that reads availability before reliability
scores_from_values_swapped(vals) ==
    LET f == clamp_round(1, 5, vals[2])
        d == clamp_round(1, 5, vals[1])
        p == clamp_round(1, 5, vals[3])
        crit == IF Len(vals) >= 4 THEN clamp_round(3, 15, vals[4]) ELSE Ok(0)
    IN IF f.exc \/ d.exc \/ p.exc \/ crit.exc THEN Raised
       ELSE Ok(ScoreResult(f.val, d.val, p.val, f.val + d.val + p.val))

\* lines 382-397, 401-412, 457-468, 472-483: three clamped scores, the 4th value
\* clamped for the log line only, criticality the sum of the three
scores_from_values(vals) ==
    LET f == clamp_round(1, 5, vals[1])
        d == clamp_round(1, 5, vals[2])
        p == clamp_round(1, 5, vals[3])
        crit == IF Len(vals) >= 4 THEN clamp_round(3, 15, vals[4]) ELSE Ok(0)
    IN IF f.exc \/ d.exc \/ p.exc \/ crit.exc THEN Raised
       ELSE Ok(ScoreResult(f.val, d.val, p.val, f.val + d.val + p.val))

\* a predict_single that accepts 2-D outputs only
single_from_prediction_2d_only(self, anomaly_data, prediction) ==
    IF ~has_shape(prediction) THEN Raised
    ELSE LET sh == shape(prediction)
         IN IF Len(sh) = 2 /\ sh[2] >= 3
            THEN IF Len(prediction.rows) = 0 THEN Raised
                 ELSE scores_from_values(prediction.rows[1])
            ELSE Ok(_fallback_prediction(self, anomaly_data))

\* lines 379-424 of predict_single, after model.predict returned `prediction`
single_from_prediction(self, anomaly_data, prediction) ==
    IF ~has_shape(prediction) THEN Raised              \* prediction.shape: AttributeError
    ELSE LET sh == shape(prediction)
         IN IF Len(sh) = 2 /\ sh[2] >= 3
            THEN IF Len(prediction.rows) = 0 THEN Raised   \* prediction[0]: IndexError
                 ELSE scores_from_values(prediction.rows[1])
            ELSE IF Len(sh) = 1 /\ Len(prediction.rows) >= 3
            THEN IF prediction.kind = "obj" THEN Raised    \* int(round(<array>)): TypeError
                 ELSE scores_from_values([i \in 1..Len(prediction.rows) |-> prediction.rows[i][1]])
            ELSE Ok(_fallback_prediction(self, anomaly_data))

\* a row loop that raises on a short row instead of scoring it by rule
batch_item_strict(self, anomalies_data, prediction, i) ==
    LET row == prediction.rows[i]
        rule == IF i > Len(anomalies_data) THEN Raised
                ELSE Ok(_fallback_prediction(self, anomalies_data[i]))
    IN CASE prediction.kind = "list" -> Raised
         [] prediction.kind = "arr1" -> rule
         [] prediction.kind \in {"arr2", "obj"} ->
                IF Len(row) >= 3 THEN scores_from_values(row) ELSE Raised
         [] prediction.kind = "arr3" ->
                IF Len(row) >= 3 THEN Raised ELSE rule

\* lines 452-496 of predict_batch: the item appended for row i (1-based here)
batch_item(self, anomalies_data, prediction, i) ==
    LET row == prediction.rows[i]
        rule == IF i > Len(anomalies_data) THEN Raised     \* anomalies_data[i]: IndexError
                ELSE Ok(_fallback_prediction(self, anomalies_data[i]))
    IN CASE prediction.kind = "list" -> Raised             \* prediction.shape: AttributeError
         [] prediction.kind = "arr1" -> rule               \* a scalar: shape (), no __len__
         [] prediction.kind \in {"arr2", "obj"} ->
                IF Len(row) >= 3 THEN scores_from_values(row) ELSE rule
         [] prediction.kind = "arr3" ->
                IF Len(row) >= 3 THEN Raised ELSE rule     \* int(round(<array>)): TypeError

\* lines 450-498: the loop over the rows of `predictions`
batch_from_prediction(self, anomalies_data, prediction) ==
    LET items == [i \in 1..Len(prediction.rows) |-> batch_item(self, anomalies_data, prediction, i)]
    IN IF \E i \in DOMAIN items : items[i].exc THEN Raised
       ELSE Ok([i \in DOMAIN items |-> items[i].val])

(***************************************************************************)
(* Records and data frames                                                 *)
(***************************************************************************)
\* the key order of the dicts that reach the engine (file_processor.py:73-80, 44-53)
FIELD_ORDER ==
    <<"num_equipement", "systeme", "description",
      "date_detection", "description_equipement", "section_proprietaire">>

\* how each column or encoder name is written (TLA+ strings are atomic)
spelling ==
    [num_equipement |-> <<"n","u","m","_","e","q","u","i","p","e","m","e","n","t">>,
     systeme |-> <<"s","y","s","t","e","m","e">>,
     description |-> <<"d","e","s","c","r","i","p","t","i","o","n">>,
     date_detection |-> <<"d","a","t","e","_","d","e","t","e","c","t","i","o","n">>,
     description_equipement |-> <<"d","e","s","c","r","i","p","t","i","o","n","_","e","q","u","i","p","e","m","e","n","t">>,
     section_proprietaire |-> <<"s","e","c","t","i","o","n","_","p","r","o","p","r","i","e","t","a","i","r","e">>,
     Num_equipement |-> <<"N","u","m","_","e","q","u","i","p","e","m","e","n","t">>,
     Systeme |-> <<"S","y","s","t","e","m","e">>,
     Zone |-> <<"Z","o","n","e">>]

str_unknown == <<"u","n","k","n","o","w","n">>

Range(seq) == {seq[i] : i \in DOMAIN seq}
SetMin(S) == CHOOSE x \in S : \A y \in S : x <= y

\* pd.DataFrame(data).fillna("unknown"), lines 155-160 and 267-271
DataFrame(data) ==
    LET columns == SelectSeq(FIELD_ORDER, LAMBDA k : \E i \in DOMAIN data : k \in DOMAIN data[i])
    IN [columns |-> columns,
        rows |-> [i \in DOMAIN data |->
                    [k \in Range(columns) |-> Get(data[i], k, str_unknown)]]]

\* a numeric matrix: np.ndarray of shape (n, w)
Matrix(n, w, rows) == [shape |-> <<n, w>>, rows |-> rows]
zeros(n, w) == Matrix(n, w, [i \in 1..n |-> [j \in 1..w |-> 0]])

\* np.concatenate([A, B], axis=1) of two matrices with the same number of rows
hconcat(A, B) ==
    Matrix(A.shape[1], A.shape[2] + B.shape[2],
           [i \in 1..A.shape[1] |-> A.rows[i] \o B.rows[i]])

RECURSIVE hconcat_all(_)
hconcat_all(arrays) ==
    IF Len(arrays) = 1 THEN arrays[1]
    ELSE hconcat(arrays[1], hconcat_all(Tail(arrays)))

(***************************************************************************)
(* str.split(), hash()                                                     *)
(***************************************************************************)
\* str.split() on blanks: the words of s, in order
RECURSIVE split_from(_, _, _)
split_from(s, i, word) ==
    IF i > Len(s) THEN (IF word = <<>> THEN <<>> ELSE <<word>>)
    ELSE IF s[i] = " "
         THEN (IF word = <<>> THEN <<>> ELSE <<word>>) \o split_from(s, i + 1, <<>>)
         ELSE split_from(s, i + 1, Append(word, s[i]))
split(s) == split_from(s, 1, <<>>)

\* a number for each character
CHARACTERS ==
    ASCII_LOWER \o ASCII_UPPER \o <<"0","1","2","3","4","5","6","7","8","9","_"," ">>
CODE_OF ==
    [c \in {CHARACTERS[i] : i \in DOMAIN CHARACTERS} |->
        CHOOSE i \in DOMAIN CHARACTERS : CHARACTERS[i] = c]
char_code(c) == IF c \in DOMAIN CODE_OF THEN CODE_OF[c] ELSE 0

\* hash(s) of a str: fixed within a process, a signed integer that depends on
\* the process's hash seed
RECURSIVE hash_fold(_, _)
hash_fold(s, acc) ==
    IF s = <<>> THEN acc
    ELSE hash_fold(Tail(s), (acc * 31 + char_code(Head(s))) % 65536)
py_hash(seed, s) == hash_fold(s, 7919 * (seed + 1)) - 32768

(***************************************************************************)
(* Feature Builder                                                         *)
(***************************************************************************)
\* line 290
vocab_size == 100

\* lines 181-186 (accents dropped from the two French names)
column_mapping ==
    [num_equipement |-> "Num_equipement",
     systeme |-> "Systeme",
     description |-> "Description de l'equipement",
     section_proprietaire |-> "Section proprietaire"]

\* lines 193-195
column_matches(df_col_name, col_key) ==
    \/ lower(spelling[df_col_name]) = lower(spelling[col_key])
    \/ df_col_name = col_key
    \/ Get(column_mapping, df_col_name, df_col_name) = col_key

\* lines 191-197: the first matching column, or None
find_column(df, col_key) ==
    LET hits == {j \in DOMAIN df.columns : column_matches(df.columns[j], col_key)}
    IN IF hits = {} THEN None ELSE df.columns[SetMin(hits)]

\* LabelEncoder.transform([value])[0]: the index of value in classes_, or ValueError
encoder_transform(encoder, value) ==
    IF \E i \in DOMAIN encoder.classes : encoder.classes[i] = value
    THEN Ok((CHOOSE i \in DOMAIN encoder.classes : encoder.classes[i] = value) - 1)
    ELSE Raised

\* an unseen value given the code after the last class, len(encoder.classes_)
encode_value_new_code(encoder, value) ==
    LET encoded == encoder_transform(encoder, value)
    IN IF encoded.exc THEN Len(encoder.classes) ELSE encoded.val

\* lines 206-214: one value of a categorical column
encode_value(encoder, value) ==
    LET encoded == encoder_transform(encoder, value)
    IN IF encoded.exc THEN 0 ELSE encoded.val

\* a column block that is left out when no column of the frame matches
encoded_column_skipping(df, col_key, encoder) ==
    LET df_col == find_column(df, col_key)
        n == Len(df.rows)
    IN IF df_col # None
       THEN Matrix(n, 1, [i \in 1..n |-> <<encode_value(encoder, df.rows[i][df_col])>>])
       ELSE Matrix(n, 0, [i \in 1..n |-> <<>>])

\* lines 189-220: the column block of one encoder
encoded_column(df, col_key, encoder) ==
    LET df_col == find_column(df, col_key)
        n == Len(df.rows)
    IN IF df_col # None
       THEN Matrix(n, 1, [i \in 1..n |-> <<encode_value(encoder, df.rows[i][df_col])>>])
       ELSE zeros(n, 1)

\* CountVectorizer.transform: lower-case, words of two characters or more,
\* one count per vocabulary term
count_vector(vectorizer, text) ==
    LET tokens == SelectSeq(split(lower(text)), LAMBDA w : Len(w) >= 2)
    IN [j \in DOMAIN vectorizer.vocabulary |->
           Cardinality({t \in DOMAIN tokens : tokens[t] = vectorizer.vocabulary[j]})]

\* lines 225-229
find_desc_column(df) ==
    LET hits == {j \in DOMAIN df.columns :
                    \/ contains(lower(spelling[df.columns[j]]), spelling["description"])
                    \/ contains(lower(spelling[df.columns[j]]), <<"d","e","s","c">>)}
    IN IF hits = {} THEN None ELSE df.columns[SetMin(hits)]

\* lines 223-246: the text block
text_block(self, df) ==
    LET desc_col == find_desc_column(df)
        n == Len(df.rows)
    IN IF desc_col # None
       THEN Matrix(n, Len(self.vectorizer.vocabulary),
                   [i \in 1..n |-> count_vector(self.vectorizer, df.rows[i][desc_col])])
       ELSE zeros(n, 100)

\* lines 263-312: the hashing scheme, when nothing in it raises
fallback_features(seed, data) ==
    LET df == DataFrame(data)
        n == Len(df.rows)
        cols == SelectSeq(<<"systeme", "num_equipement">>, LAMBDA c : c \in Range(df.columns))
        numeric_features ==
            [k \in DOMAIN cols |->
                Matrix(n, 1, [i \in 1..n |-> <<py_hash(seed, df.rows[i][cols[k]]) % 1000>>])]
        text_row(desc) ==
            LET words == split(lower(desc))
                hashed == [j \in 1..min(vocab_size, Len(words)) |-> py_hash(seed, words[j]) % 100]
            IN hashed \o [j \in 1..(vocab_size - Len(hashed)) |-> 0]
        text_features ==
            IF "description" \in Range(df.columns)
            THEN Matrix(n, vocab_size, [i \in 1..n |-> text_row(df.rows[i]["description"])])
            ELSE zeros(n, 100)
    IN IF Len(numeric_features) > 0
       THEN hconcat(hconcat_all(numeric_features), text_features)
       ELSE text_features

\* _prepare_features_fallback, lines 261-316; env.fb_fail: something in it raised
_prepare_features_fallback(seed, data, env) ==
    IF env.fb_fail THEN zeros(1, 104) ELSE fallback_features(seed, data)

\* lines 178-255, when nothing in it raises
saved_components_features(self, df) ==
    LET feature_arrays ==
            [k \in DOMAIN self.label_encoders.items |->
                encoded_column(df, self.label_encoders.items[k].key,
                               self.label_encoders.items[k].value)]
            \o (IF truthy(self.vectorizer) THEN <<text_block(self, df)>> ELSE <<>>)
    IN hconcat_all(feature_arrays)

\* _prepare_features_with_saved_components, lines 175-259; env.saved_fail:
\* something in it raised (an encoder without transform, an unfitted vectorizer)
_prepare_features_with_saved_components(self, seed, data, env) ==
    IF env.saved_fail THEN _prepare_features_fallback(seed, data, env)
    ELSE saved_components_features(self, DataFrame(data))

\* line 163
has_bundle(self) == truthy(self.label_encoders) /\ truthy(self.vectorizer)

\* _prepare_features, lines 149-173 (DEPENDENCIES_AVAILABLE holds on every path
\* that calls it); env.prep_fail: building the data frame raised
_prepare_features(self, seed, data, env) ==
    IF env.prep_fail THEN _prepare_features_fallback(seed, data, env)
    ELSE IF has_bundle(self) THEN _prepare_features_with_saved_components(self, seed, data, env)
    ELSE _prepare_features_fallback(seed, data, env)

(***************************************************************************)
(* Estimators.  An object of the artifact that may carry a predict         *)
(* attribute; its predict is a fixed function of the feature matrix:       *)
(*   kind "const"  : returns `out` whatever the matrix (any shape, any     *)
(*                   row count, or raises)                                 *)
(*   kind "rowwise": one output row of `ncols` values per matrix row,      *)
(*                   computed from the row's first three features; raises  *)
(*                   when n_features is not 0 and differs from the width   *)
(*                   of the matrix (scikit-learn's check)                  *)
(***************************************************************************)
Estimator(has_predict, callable_predict, is_truthy, class_name, sklearn_base, kind, out, n_features, ncols) ==
    [type |-> "object", has_predict |-> has_predict, callable_predict |-> callable_predict,
     truthy |-> is_truthy, class_name |-> class_name, sklearn_base |-> sklearn_base,
     kind |-> kind, out |-> out, n_features |-> n_features, ncols |-> ncols]

elem(x, i) == IF i <= Len(x) THEN x[i] ELSE 0

\* the output row of a "rowwise" estimator for the feature row x
row_output(model, x) ==
    SubSeq(<<F(2 * (elem(x, 1) % 7) - 1), F(2 * (elem(x, 2) % 7) - 1),
             F(2 * (elem(x, 3) % 7) - 1), F(2 * (elem(x, 1) + elem(x, 2) + elem(x, 3)))>>,
           1, model.ncols)

\* self.model.predict(X), lines 375 and 447
model_predict(model, X) ==
    IF model.kind = "const" THEN model.out
    ELSE IF model.n_features # 0 /\ X.shape[2] # model.n_features THEN PredictRaises
    ELSE Prediction("arr2", model.ncols,
                    [i \in 1..X.shape[1] |-> row_output(model, X.rows[i])])

(***************************************************************************)
(* Model Loader & Validator                                                *)
(***************************************************************************)
\* lines 119-126
sklearn_models ==
    {"RandomForestRegressor", "RandomForestClassifier", "LinearRegression",
     "LogisticRegression", "SVC", "SVR", "DecisionTreeRegressor", "DecisionTreeClassifier",
     "GradientBoostingRegressor", "GradientBoostingClassifier", "XGBRegressor",
     "XGBClassifier", "LGBMRegressor", "LGBMClassifier"}

\* _validate_model, lines 84-141
_validate_model(model) ==
    IF model.type = "dict" THEN FALSE
    ELSE IF ~(model.type = "object" /\ model.has_predict) THEN FALSE
    ELSE IF ~model.callable_predict THEN FALSE
    ELSE IF model.sklearn_base THEN TRUE
    ELSE IF model.class_name \in sklearn_models THEN TRUE
    ELSE TRUE

\* the first element of a sequence of objects that passes _validate_model, or None
first_valid(objs) ==
    LET hits == {i \in DOMAIN objs : _validate_model(objs[i])}
    IN IF hits = {} THEN PyNone ELSE objs[SetMin(hits)]

\* line 522
model_keys == <<"model", "estimator", "classifier", "regressor", "predictor">>

\* dict.get(key, default) on a modelled dict
dict_get(d, key, default) ==
    LET hits == {i \in DOMAIN d.items : d.items[i].key = key}
    IN IF hits = {} THEN default ELSE d.items[SetMin(hits)].value

\* an extraction that stops at the first standard key the mapping holds
_extract_model_from_loaded_object_first_key(loaded_object) ==
    IF _validate_model(loaded_object) THEN loaded_object
    ELSE IF loaded_object.type = "dict"
    THEN LET present == SelectSeq(model_keys,
                                  LAMBDA k : \E i \in DOMAIN loaded_object.items :
                                                 loaded_object.items[i].key = k)
         IN IF Len(present) > 0
            THEN IF _validate_model(dict_get(loaded_object, present[1], PyNone))
                 THEN dict_get(loaded_object, present[1], PyNone)
                 ELSE PyNone
            ELSE first_valid([i \in DOMAIN loaded_object.items |-> loaded_object.items[i].value])
    ELSE IF loaded_object.type \in {"list", "tuple"}
    THEN first_valid(loaded_object.items)
    ELSE PyNone

\* _extract_model_from_loaded_object, lines 509-559
_extract_model_from_loaded_object(loaded_object) ==
    IF _validate_model(loaded_object) THEN loaded_object
    ELSE IF loaded_object.type = "dict"
    THEN LET under_keys ==
                 SelectSeq([k \in DOMAIN model_keys |-> dict_get(loaded_object, model_keys[k], PyNone)],
                           LAMBDA v : _validate_model(v))
         IN IF Len(under_keys) > 0 THEN under_keys[1]
            ELSE first_valid([i \in DOMAIN loaded_object.items |-> loaded_object.items[i].value])
    ELSE IF loaded_object.type \in {"list", "tuple"}
    THEN first_valid(loaded_object.items)
    ELSE PyNone

\* what is at model_path: no file, a file joblib.load raises on (this covers
\* joblib itself missing), or a file holding `obj`
Artifact(exists, loads, obj) == [exists |-> exists, loads |-> loads, obj |-> obj]

TAMSPredictorObject(model, model_loaded, label_encoders, vectorizer) ==
    [type |-> "TAMSPredictor", model |-> model, model_loaded |-> model_loaded,
     label_encoders |-> label_encoders, vectorizer |-> vectorizer]

\* len(obj) is defined
has_len(obj) == obj.type \in {"dict", "list", "tuple", "str"}

\* the try block of __init__, lines 47-76: the attributes as they are when the
\* block ends, and whether it ended by an exception (joblib.load raising at
\* line 52, len(self.label_encoders) raising at line 69)
init_try(model_file) ==
    LET fresh == TAMSPredictorObject(PyNone, FALSE, PyDict(<<>>), PyNone)
        loaded_object == model_file.obj
        model_to_validate == _extract_model_from_loaded_object(loaded_object)
        label_encoders == dict_get(loaded_object, "label_encoders", PyDict(<<>>))
        vectorizer == dict_get(loaded_object, "vectorizer", PyNone)
    IN IF ~model_file.exists THEN [exc |-> FALSE, self |-> fresh]
       ELSE IF ~model_file.loads THEN [exc |-> TRUE, self |-> fresh]
       ELSE IF truthy(model_to_validate) /\ _validate_model(model_to_validate)
       THEN IF loaded_object.type = "dict"
            THEN [exc |-> ~has_len(label_encoders),
                  self |-> TAMSPredictorObject(model_to_validate, TRUE, label_encoders, vectorizer)]
            ELSE [exc |-> FALSE,
                  self |-> TAMSPredictorObject(model_to_validate, TRUE, PyDict(<<>>), PyNone)]
       ELSE [exc |-> FALSE, self |-> fresh]

\* a constructor that leaves model_loaded set when it finds no file
TAMSPredictor_flag_first(model_file) ==
    LET r == init_try(model_file)
    IN IF r.exc THEN [r.self EXCEPT !.model = PyNone, !.model_loaded = FALSE]
       ELSE IF ~model_file.exists THEN [r.self EXCEPT !.model_loaded = TRUE]
       ELSE r.self

\* what is bound to `predictor` when the constructor raised
ConstructionRaised == [type |-> "Exception"]

\* a constructor without its except clause
TAMSPredictor_no_except(model_file) ==
    LET r == init_try(model_file)
    IN IF r.exc THEN ConstructionRaised ELSE r.self

\* TAMSPredictor.__init__, lines 34-82: the try block and its handler, lines 78-82
TAMSPredictor(model_file) ==
    LET r == init_try(model_file)
    IN IF r.exc THEN [r.self EXCEPT !.model = PyNone, !.model_loaded = FALSE]
       ELSE r.self

(***************************************************************************)
(* Prediction Engine: predict_single, predict_batch                        *)
(***************************************************************************)
\* a use_model that trusts the validation of load time
use_model_no_recheck(self, deps) ==
    deps /\ self.model_loaded /\ self.model.type # "NoneType"

\* lines 369 and 441
use_model(self, deps) ==
    deps /\ self.model_loaded /\ self.model.type # "NoneType" /\ _validate_model(self.model)

\* lines 375-424: the model branch of predict_single, from model.predict(X) on
predict_single_model(self, anomaly_data, X) ==
    LET prediction == model_predict(self.model, X)
    IN IF prediction.kind = "raise" THEN Raised
       ELSE single_from_prediction(self, anomaly_data, prediction)

\* predict_single without its except clause
single_try_except_reraise(self, anomaly_data, body) == body

\* lines 368-434: the try statement of predict_single and its handler
single_try_except(self, anomaly_data, body) ==
    IF body.exc THEN Ok(_fallback_prediction(self, anomaly_data)) ELSE body

\* predict_single, lines 361-434, given the matrix X that _prepare_features builds
predict_single_on(self, deps, anomaly_data, X) ==
    single_try_except(self, anomaly_data,
        IF use_model(self, deps)
        THEN predict_single_model(self, anomaly_data, X)
        ELSE Ok(_fallback_prediction(self, anomaly_data)))

predict_single(self, deps, seed, anomaly_data, env) ==
    predict_single_on(self, deps, anomaly_data,
                      _prepare_features(self, seed, <<anomaly_data>>, env))

\* a rule-based batch that scores the first record for every position
fallback_all_first(self, anomalies_data) ==
    [i \in DOMAIN anomalies_data |-> _fallback_prediction(self, anomalies_data[1])]

\* lines 502 and 507
fallback_all(self, anomalies_data) ==
    [i \in DOMAIN anomalies_data |-> _fallback_prediction(self, anomalies_data[i])]

\* lines 447-498: the model branch of predict_batch, from model.predict(X) on
predict_batch_model(self, anomalies_data, X) ==
    LET predictions == model_predict(self.model, X)
    IN IF predictions.kind = "raise" THEN Raised
       ELSE batch_from_prediction(self, anomalies_data, predictions)

\* a handler of predict_batch that hands back an empty list
batch_try_except_empty(self, anomalies_data, body) ==
    IF body.exc THEN Ok(<<>>) ELSE body

\* lines 440-507: the try statement of predict_batch and its handler
batch_try_except(self, anomalies_data, body) ==
    IF body.exc THEN Ok(fallback_all(self, anomalies_data)) ELSE body

\* predict_batch, lines 436-507, given the matrix X that _prepare_features builds
predict_batch_on(self, deps, anomalies_data, X) ==
    batch_try_except(self, anomalies_data,
        IF use_model(self, deps)
        THEN predict_batch_model(self, anomalies_data, X)
        ELSE Ok(fallback_all(self, anomalies_data)))

predict_batch(self, deps, seed, anomalies_data, env) ==
    predict_batch_on(self, deps, anomalies_data,
                     _prepare_features(self, seed, anomalies_data, env))

(***************************************************************************)
(* The inputs the model is run on                                          *)
(***************************************************************************)
EQ0 == <<"E","Q","0">>
EQ1 == <<"E","Q","1">>
EQ2 == <<"E","Q","2">>
EQ9 == <<"E","Q","9">>
sys_Air == <<"A","i","r">>
sys_Hydraulic == <<"H","y","d","r","a","u","l","i","c">>
sys_Electrical == <<"E","l","e","c","t","r","i","c","a","l">>
sys_Mechanical == <<"M","e","c","h","a","n","i","c","a","l">>
desc_PressureDrop == <<"P","r","e","s","s","u","r","e"," ","d","r","o","p">>
desc_Rechecked == <<"R","e","c","h","e","c","k","e","d">>
desc_noise == <<"n","o","i","s","e">>

\* validated records: the three required fields are present and not empty
RecA == [num_equipement |-> EQ1, systeme |-> sys_Hydraulic, description |-> desc_PressureDrop]
RecB == [num_equipement |-> EQ2, systeme |-> sys_Electrical, description |-> desc_Rechecked]
RecC == [num_equipement |-> EQ9, systeme |-> sys_Mechanical, description |-> desc_noise,
         date_detection |-> <<>>, description_equipement |-> <<>>, section_proprietaire |-> <<>>]
RecordSet == {RecA, RecB, RecC}

SeqsUpTo(S, n) == UNION {[1..k -> S] : k \in 0..n}
Batches == SeqsUpTo(RecordSet, MaxBatch)

\* rows an estimator may return: 2.5 3.5 6.0 | -1.5 0.5 3.0 | nan 3.0 3.0 | 3.0 3.0
row_ok3 == <<F(5), F(7), F(12)>>
row_low3 == <<F(-3), F(1), F(12)>>
row_nan3 == <<NaN, F(6), F(6)>>
row_short2 == <<F(6), F(6)>>
row_ok4 == <<F(5), F(7), F(12), F(30)>>
row_ok4nan == <<F(5), F(7), F(12), NaN>>

ConstOutputs ==
    {PredictRaises}
    \cup {Prediction("list", 0, rows) : rows \in SeqsUpTo({row_ok3}, 1)}
    \cup {Prediction("arr1", 0, rows) :
            rows \in {<< <<F(6)>>, <<F(6)>> >>,
                      << <<F(5)>>, <<F(7)>>, <<F(12)>> >>,
                      << <<F(5)>>, <<F(7)>>, <<F(12)>>, <<F(30)>> >>,
                      << <<F(5)>>, <<F(7)>>, <<F(12)>>, <<NaN>> >>}}
    \cup {Prediction("arr2", 4, rows) : rows \in SeqsUpTo({row_ok4, row_ok4nan}, MaxBatch)}
    \cup {Prediction("arr2", 3, rows) : rows \in SeqsUpTo({row_low3, row_nan3}, MaxBatch)}
    \cup {Prediction("arr2", 2, rows) : rows \in SeqsUpTo({row_short2}, 1)}
    \cup {Prediction("obj", 0, rows) :
            rows \in SeqsUpTo({row_short2, row_ok3}, MaxBatch) \ {<<>>}}
    \cup {Prediction("arr3", 3, <<row_low3>>), Prediction("arr3", 2, <<row_short2>>)}

NoPrediction == Prediction("none", 0, <<>>)

SklearnEstimator(kind, out, n_features, ncols) ==
    Estimator(TRUE, TRUE, TRUE, "MultiOutputRegressor", TRUE, kind, out, n_features, ncols)

ConstEstimators == {SklearnEstimator("const", out, 0, 0) : out \in ConstOutputs}
RowwiseEstimators ==
    {SklearnEstimator("rowwise", NoPrediction, w, k) : w \in {0, 4, 102}, k \in {3, 4}}

LabelEncoder(classes) == [type |-> "LabelEncoder", classes |-> classes]
CountVectorizer(vocabulary) == [type |-> "CountVectorizer", vocabulary |-> vocabulary]

\* a bundle fitted as ml_models/model.py:15-22 fits it, on a small corpus
label_encoders_fitted ==
    PyDict(<<Item("Num_equipement", LabelEncoder(<<EQ0, EQ1, EQ2>>)),
             Item("Systeme", LabelEncoder(<<sys_Air, sys_Electrical, sys_Hydraulic>>))>>)
vectorizer_fitted ==
    CountVectorizer(<< <<"d","r","o","p">>, <<"p","r","e","s","s","u","r","e">> >>)

Bundle(model) ==
    PyDict(<<Item("model", model), Item("label_encoders", label_encoders_fitted),
             Item("vectorizer", vectorizer_fitted)>>)

JunkObject == Estimator(FALSE, FALSE, TRUE, "str", FALSE, "const", PredictRaises, 0, 0)

Artifacts ==
    {Artifact(FALSE, FALSE, PyNone), Artifact(TRUE, FALSE, PyNone)}
    \cup {Artifact(TRUE, TRUE, e) : e \in ConstEstimators \cup RowwiseEstimators}
    \cup {Artifact(TRUE, TRUE, Bundle(e)) : e \in RowwiseEstimators}
    \cup {Artifact(TRUE, TRUE, PyList(<<JunkObject, e>>)) :
            e \in {SklearnEstimator("rowwise", NoPrediction, 0, 4)}}
    \cup {Artifact(TRUE, TRUE, JunkObject)}

HashSeeds == {0, 1}

\* which stage of the feature build raised in this call
Envs == [prep_fail : BOOLEAN, saved_fail : BOOLEAN, fb_fail : BOOLEAN]
NoFail == [prep_fail |-> FALSE, saved_fail |-> FALSE, fb_fail |-> FALSE]

\* a flag is set only for a stage the call runs, and prep_fail only where it
\* changes the function that builds the matrix
env_applies(self, deps, env) ==
    IF ~use_model(self, deps) THEN env = NoFail
    ELSE /\ env.prep_fail => has_bundle(self)
         /\ env.saved_fail => (~env.prep_fail /\ has_bundle(self))
         /\ env.fb_fail => (env.prep_fail \/ ~has_bundle(self) \/ env.saved_fail)

NoMatrix == Matrix(0, 0, <<>>)
Call(op, args, env, X, prediction, ret) ==
    [op |-> op, args |-> args, env |-> env, X |-> X, prediction |-> prediction, ret |-> ret]
NoCall == Call("none", <<>>, NoFail, NoMatrix, NoPrediction, Ok(<<>>))

\* the matrix a call builds, when it enters the model branch
features_of(self, deps, seed, data, env) ==
    IF use_model(self, deps) THEN _prepare_features(self, seed, data, env) ELSE NoMatrix
\* the estimator's answer on it
prediction_of(self, deps, X) ==
    IF use_model(self, deps) THEN model_predict(self.model, X) ELSE NoPrediction

\* no call in progress on any thread, no request being served
NoThreads == <<>>
NoRequest ==
    [endpoint |-> "none", request |-> <<>>, status |-> 0, engine_op |-> "none",
     engine_args |-> <<>>, predictions |-> <<>>, stored |-> <<>>]

(***************************************************************************)
(* The process: `predictor` is constructed at import; then callers make    *)
(* calls, one at a time, and take the result                               *)
(***************************************************************************)
Init ==
    /\ artifact \in Artifacts
    /\ DEPENDENCIES_AVAILABLE \in BOOLEAN
    /\ PYTHONHASHSEED \in (IF DEPENDENCIES_AVAILABLE THEN HashSeeds ELSE {0})
    /\ predictor = PyNone
    /\ call = NoCall
    /\ prev = NoCall
    /\ threads = NoThreads
    /\ api = NoRequest

\* predictor.py:562
Construct ==
    /\ predictor.type = "NoneType"
    /\ predictor' = TAMSPredictor(artifact)
    /\ UNCHANGED <<artifact, DEPENDENCIES_AVAILABLE, PYTHONHASHSEED, call>>

PredictSingleCall ==
    /\ predictor.type = "TAMSPredictor"
    /\ call.op = "none"
    /\ \E anomaly_data \in RecordSet, env \in Envs :
          /\ env_applies(predictor, DEPENDENCIES_AVAILABLE, env)
          /\ LET X == features_of(predictor, DEPENDENCIES_AVAILABLE, PYTHONHASHSEED,
                                  <<anomaly_data>>, env)
             IN call' = Call("predict_single", <<anomaly_data>>, env, X,
                             prediction_of(predictor, DEPENDENCIES_AVAILABLE, X),
                             predict_single_on(predictor, DEPENDENCIES_AVAILABLE, anomaly_data, X))
    /\ UNCHANGED <<artifact, DEPENDENCIES_AVAILABLE, PYTHONHASHSEED, predictor>>

PredictBatchCall ==
    /\ predictor.type = "TAMSPredictor"
    /\ call.op = "none"
    /\ \E anomalies_data \in Batches, env \in Envs :
          /\ env_applies(predictor, DEPENDENCIES_AVAILABLE, env)
          /\ LET X == features_of(predictor, DEPENDENCIES_AVAILABLE, PYTHONHASHSEED,
                                  anomalies_data, env)
             IN call' = Call("predict_batch", anomalies_data, env, X,
                             prediction_of(predictor, DEPENDENCIES_AVAILABLE, X),
                             predict_batch_on(predictor, DEPENDENCIES_AVAILABLE, anomalies_data, X))
    /\ UNCHANGED <<artifact, DEPENDENCIES_AVAILABLE, PYTHONHASHSEED, predictor>>

\* the caller takes the result
ReturnCall ==
    /\ call.op # "none"
    /\ call' = NoCall
    /\ UNCHANGED <<artifact, DEPENDENCIES_AVAILABLE, PYTHONHASHSEED, predictor>>

Load == Construct /\ UNCHANGED <<prev, threads, api>>
PredictSingle == PredictSingleCall /\ UNCHANGED <<prev, threads, api>>
PredictBatch == PredictBatchCall /\ UNCHANGED <<prev, threads, api>>
Return == ReturnCall /\ UNCHANGED <<prev, threads, api>>

Next == Load \/ PredictSingle \/ PredictBatch \/ Return

Spec == Init /\ [][Next]_vars

(***************************************************************************)
(* Claims about the calls of the engine                                    *)
(***************************************************************************)
SingleCalled == call.op = "predict_single"
BatchCalled == call.op = "predict_batch"
\* the call entered the model branch and the estimator answered
ModelAnswered == call.prediction.kind \notin {"none", "raise"}

RuleScore(anomaly_data) == _fallback_prediction(predictor, anomaly_data)
RuleScores(anomalies_data) == [i \in DOMAIN anomalies_data |-> RuleScore(anomalies_data[i])]

\* the score results a finished call handed back
Results == IF SingleCalled THEN <<call.ret.val>>
           ELSE IF BatchCalled THEN call.ret.val
           ELSE <<>>

WellFormed(r) ==
    /\ r.ai_fiabilite_integrite_score \in 1..5
    /\ r.ai_disponibilite_score \in 1..5
    /\ r.ai_process_safety_score \in 1..5
    /\ r.ai_criticality_level =
          r.ai_fiabilite_integrite_score + r.ai_disponibilite_score + r.ai_process_safety_score

\* C1: every score result a call hands back has its three scores in 1..5 and
\* its criticality equal to their sum, on the model branch and in every fallback
C1_WellFormedResults ==
    (SingleCalled \/ BatchCalled) /\ ~call.ret.exc =>
        \A i \in DOMAIN Results : WellFormed(Results[i])

\* a batch in which a row was clamped from below 1 and from above 5
C1_Witness ==
    /\ BatchCalled /\ call.prediction.kind = "arr2" /\ Len(call.args) >= 2
    /\ \E i \in DOMAIN call.prediction.rows :
          /\ call.prediction.rows[i] = row_low3
          /\ i \in DOMAIN Results
          /\ Results[i] = ScoreResult(1, 1, 5, 7)

\* C2: predict_single and predict_batch never raise; when the estimator
\* raised, the caller gets the Rule-Based Score of the same input
C2_NeverRaises ==
    /\ SingleCalled \/ BatchCalled => ~call.ret.exc
    /\ SingleCalled /\ call.prediction.kind = "raise" =>
          call.ret.val = RuleScore(call.args[1])
    /\ BatchCalled /\ call.prediction.kind = "raise" =>
          call.ret.val = RuleScores(call.args)

\* a single call in which the estimator raised
C2_WitnessEstimatorRaised ==
    /\ SingleCalled /\ call.prediction.kind = "raise"
    /\ call.ret = Ok(RuleScore(call.args[1]))

\* C3: constructed on a path where nothing exists, the engine has no model,
\* model_loaded False, no label encoders and no vectorizer, and every call
\* hands back exactly the Rule-Based Scores
C3_NoArtifact ==
    predictor.type = "TAMSPredictor" /\ ~artifact.exists =>
        /\ predictor.model.type = "NoneType"
        /\ predictor.model_loaded = FALSE
        /\ predictor.label_encoders = PyDict(<<>>)
        /\ predictor.vectorizer.type = "NoneType"
        /\ SingleCalled => call.ret = Ok(RuleScore(call.args[1]))
        /\ BatchCalled => call.ret = Ok(RuleScores(call.args))

\* a full batch scored by an engine constructed without artifact
C3_Witness ==
    /\ predictor.type = "TAMSPredictor" /\ ~artifact.exists /\ DEPENDENCIES_AVAILABLE
    /\ BatchCalled /\ Len(call.args) = MaxBatch
    /\ call.ret = Ok(RuleScores(call.args))

\* a row the loop of predict_batch scores from the estimator's values
RowScorable(row) == Len(row) >= 3 /\ ~scores_from_values(row).exc
RowShort(row) == Len(row) < 3

\* C4 as stated: predict_batch on N records (here N >= 1) hands back exactly N
\* results, the i-th being the model-derived or the Rule-Based Score of the
\* i-th record
C4_OneResultPerRecord ==
    BatchCalled /\ Len(call.args) >= 1 =>
        /\ ~call.ret.exc
        /\ Len(call.ret.val) = Len(call.args)
        /\ \A i \in DOMAIN call.ret.val :
              \/ call.ret.val[i] = RuleScore(call.args[i])
              \/ /\ ModelAnswered
                 /\ i \in DOMAIN call.prediction.rows
                 /\ RowScorable(call.prediction.rows[i])
                 /\ call.ret.val[i] = scores_from_values(call.prediction.rows[i]).val

\* C5: when the estimator answers one row per record, each row short or
\* scorable, and some row is short, exactly the short rows' positions hold
\* the Rule-Based Score of their own record and every other position holds the
\* model-derived score of its own row
C5_PerRowFallback ==
    (/\ BatchCalled
     /\ call.prediction.kind \in {"arr1", "arr2", "obj"}
     /\ Len(call.prediction.rows) = Len(call.args)
     /\ \E i \in DOMAIN call.prediction.rows : RowShort(call.prediction.rows[i])
     /\ \A i \in DOMAIN call.prediction.rows :
           RowShort(call.prediction.rows[i]) \/ RowScorable(call.prediction.rows[i]))
    => /\ ~call.ret.exc
       /\ Len(call.ret.val) = Len(call.args)
       /\ \A i \in DOMAIN call.args :
             call.ret.val[i] = IF RowShort(call.prediction.rows[i])
                               THEN RuleScore(call.args[i])
                               ELSE scores_from_values(call.prediction.rows[i]).val

\* a batch of three whose middle row is short and whose outer rows are scored
\* from the estimator's values
C5_Witness ==
    /\ BatchCalled /\ call.prediction.kind = "obj"
    /\ call.args = <<RecA, RecB, RecC>>
    /\ call.prediction.rows = <<row_ok3, row_short2, row_ok3>>
    /\ call.ret = Ok(<<ScoreResult(2, 4, 5, 11), RuleScore(RecB), ScoreResult(2, 4, 5, 11)>>)

\* the estimator's answer with the 4th value of every row replaced by v
with_fourth(prediction, v) ==
    IF prediction.kind = "arr1"
    THEN [prediction EXCEPT !.rows = [i \in DOMAIN @ |-> IF i = 4 THEN <<v>> ELSE @[i]]]
    ELSE [prediction EXCEPT !.rows =
             [i \in DOMAIN @ |-> [j \in DOMAIN @[i] |-> IF j = 4 THEN v ELSE @[i][j]]]]

\* what the call hands back when the estimator answers `prediction`
ret_for(prediction) ==
    IF SingleCalled
    THEN single_try_except(predictor, call.args[1],
                           single_from_prediction(predictor, call.args[1], prediction))
    ELSE batch_try_except(predictor, call.args,
                          batch_from_prediction(predictor, call.args, prediction))

FourthValues == {F(6), F(30), F(199), NaN}

\* C6 as stated: whatever 4th value the estimator returns, the result is the
\* same: three clamped scores and their sum
C6_FourthValueIgnored ==
    (SingleCalled \/ BatchCalled) /\ call.prediction.kind \in {"arr1", "arr2", "obj"} =>
        \A v \in FourthValues : ret_for(with_fourth(call.prediction, v)) = call.ret

\* C14 as stated: when the estimator answers one row per record, each of 3 or
\* more values, a row whose values cannot be rounded sends only its own record
\* to the Rule-Based Scorer and the other records keep their model-derived
\* scores
C14_OnlyTheFailingRow ==
    (/\ BatchCalled
     /\ call.prediction.kind \in {"arr2", "obj"}
     /\ Len(call.prediction.rows) = Len(call.args)
     /\ \A i \in DOMAIN call.prediction.rows : Len(call.prediction.rows[i]) >= 3
     /\ \E i \in DOMAIN call.prediction.rows : ~RowScorable(call.prediction.rows[i]))
    => /\ ~call.ret.exc
       /\ Len(call.ret.val) = Len(call.args)
       /\ \A i \in DOMAIN call.args :
             call.ret.val[i] = IF RowScorable(call.prediction.rows[i])
                               THEN scores_from_values(call.prediction.rows[i]).val
                               ELSE RuleScore(call.args[i])

\* C15: when the estimator's predict raises during predict_batch, the output
\* has the input's length and output i is the Rule-Based Score of input i
C15_PredictRaisesWholeBatch ==
    BatchCalled /\ call.prediction.kind = "raise" =>
        /\ ~call.ret.exc
        /\ Len(call.ret.val) = Len(call.args)
        /\ \A i \in DOMAIN call.args : call.ret.val[i] = RuleScore(call.args[i])

\* a batch of three different records, the estimator's predict having raised
C15_Witness ==
    /\ BatchCalled /\ call.prediction.kind = "raise"
    /\ call.args = <<RecC, RecA, RecB>>
    /\ call.ret.val = <<ScoreResult(3, 3, 3, 9), ScoreResult(4, 5, 5, 14), ScoreResult(2, 2, 3, 7)>>

(***************************************************************************)
(* The Rule-Based Scorer on its own: _fallback_prediction applied to       *)
(* records whose description is one to MaxWords words and whose system is  *)
(* one of six texts                                                        *)
(***************************************************************************)
word_Pressure == <<"P","r","e","s","s","u","r","e">>
word_LEAK == <<"L","E","A","K">>
word_drop == <<"d","r","o","p">>
word_Rechecked == <<"R","e","c","h","e","c","k","e","d">>
word_noise == <<"n","o","i","s","e">>

CriticalWords == {word_Pressure, word_LEAK}
MediumWords == {word_drop}
LowWords == {word_Rechecked}
DescWords == CriticalWords \cup MediumWords \cup LowWords \cup {word_noise}

RECURSIVE join(_)
join(ws) == IF Len(ws) = 1 THEN ws[1] ELSE ws[1] \o <<" ">> \o join(Tail(ws))

WordSeqs == SeqsUpTo(DescWords, MaxWords) \ {<<>>}

sys_HYDRAULIC == <<"H","Y","D","R","A","U","L","I","C">>
sys_pneumatic == <<"p","n","e","u","m","a","t","i","c">>
sys_HydraulicElectrical == sys_Hydraulic \o <<" ">> \o sys_Electrical
sys_ElectricalPneumatic == sys_Electrical \o <<"-">> \o sys_pneumatic

ElectricalSystems == {sys_Electrical, sys_HydraulicElectrical, sys_ElectricalPneumatic}
FluidSystems == {sys_HYDRAULIC, sys_pneumatic}
ScorerSystems == ElectricalSystems \cup FluidSystems \cup {sys_Mechanical}

ScorerRecords ==
    {[num_equipement |-> EQ1, systeme |-> sy, description |-> join(ws)] :
        sy \in ScorerSystems, ws \in WordSeqs}

ScorerArtifacts ==
    {Artifact(FALSE, FALSE, PyNone),
     Artifact(TRUE, TRUE, Bundle(SklearnEstimator("rowwise", NoPrediction, 0, 4)))}

InitScorer ==
    /\ artifact \in ScorerArtifacts
    /\ DEPENDENCIES_AVAILABLE = TRUE
    /\ PYTHONHASHSEED = 0
    /\ predictor = TAMSPredictor(artifact)
    /\ call = NoCall
    /\ prev = NoCall
    /\ threads = NoThreads
    /\ api = NoRequest

ScoreRecord ==
    /\ call.op = "none"
    /\ \E anomaly_data \in ScorerRecords :
          call' = Call("_fallback_prediction", <<anomaly_data>>, NoFail, NoMatrix, NoPrediction,
                       Ok(_fallback_prediction(predictor, anomaly_data)))
    /\ UNCHANGED <<artifact, DEPENDENCIES_AVAILABLE, PYTHONHASHSEED, predictor, prev, threads, api>>

TakeScore == ReturnCall /\ UNCHANGED <<prev, threads, api>>

NextScorer == ScoreRecord \/ TakeScore

SpecScorer == InitScorer /\ [][NextScorer]_vars

(***************************************************************************)
(* Claims about the Rule-Based Scorer                                      *)
(***************************************************************************)
\* the words a scored description was joined from
WordsOf(description) == CHOOSE ws \in WordSeqs : join(ws) = description

\* the base scores the keyword classes of the words prescribe
BaseByClass(ws) ==
    IF \E i \in DOMAIN ws : ws[i] \in CriticalWords THEN <<4, 4, 5>>
    ELSE IF \E i \in DOMAIN ws : ws[i] \in MediumWords THEN <<3, 3, 3>>
    ELSE IF \E i \in DOMAIN ws : ws[i] \in LowWords THEN <<2, 2, 2>>
    ELSE <<3, 3, 3>>

ScorerCalled == call.op = "_fallback_prediction"
Scored == call.ret.val
Triple(r) == <<r.ai_fiabilite_integrite_score, r.ai_disponibilite_score, r.ai_process_safety_score>>

\* C7: the base scores follow the keyword classes in the priority order
\* critical > medium > low, (3,3,3) without keyword: the reliability score,
\* which no system adjustment touches, is the base's, and on a system without
\* adjustment all three scores are the base's
C7_KeywordPriority ==
    ScorerCalled =>
        LET base == BaseByClass(WordsOf(call.args[1].description))
        IN /\ Scored.ai_fiabilite_integrite_score = base[1]
           /\ call.args[1].systeme = sys_Mechanical => Triple(Scored) = base

\* a description with a critical, a medium and a low word was scored
C7_Witness ==
    /\ ScorerCalled
    /\ call.args[1].description = join(<<word_Rechecked, word_LEAK>>)
    /\ call.args[1].systeme = sys_Mechanical
    /\ Triple(Scored) = <<4, 4, 5>>

\* the base scores, read off the reliability score
BaseOf(r) == IF r.ai_fiabilite_integrite_score = 4 THEN <<4, 4, 5>>
             ELSE IF r.ai_fiabilite_integrite_score = 3 THEN <<3, 3, 3>>
             ELSE <<2, 2, 2>>

\* C8: at most one system adjustment: electrical raises process-safety only,
\* capped at 5; otherwise hydraulic or pneumatic raises availability only,
\* capped at 5; otherwise nothing; criticality is the sum
C8_SystemAdjustment ==
    ScorerCalled =>
        LET base == BaseOf(Scored)
            sy == call.args[1].systeme
        IN /\ Scored.ai_fiabilite_integrite_score \in {2, 3, 4}
           /\ sy \in ElectricalSystems =>
                 Triple(Scored) = <<base[1], base[2], IF base[3] = 5 THEN 5 ELSE base[3] + 1>>
           /\ sy \in FluidSystems =>
                 Triple(Scored) = <<base[1], IF base[2] = 5 THEN 5 ELSE base[2] + 1, base[3]>>
           /\ sy = sys_Mechanical => Triple(Scored) = base
           /\ Scored.ai_criticality_level =
                 Scored.ai_fiabilite_integrite_score + Scored.ai_disponibilite_score
                 + Scored.ai_process_safety_score

\* a critical description on an electrical system keeps process-safety 5
C8_Witness ==
    /\ ScorerCalled
    /\ call.args[1].description = join(<<word_Pressure, word_drop>>)
    /\ call.args[1].systeme = sys_HydraulicElectrical
    /\ Scored = ScoreResult(4, 4, 5, 13)

\* C16: the criticality of the Rule-Based Scorer lies in 6..14; it is 6 for a
\* description whose only keywords are low on a system without adjustment and
\* 14 for a description with a critical keyword on a hydraulic or pneumatic
\* system
C16_CriticalityRange ==
    ScorerCalled =>
        LET base == BaseByClass(WordsOf(call.args[1].description))
            sy == call.args[1].systeme
        IN /\ Scored.ai_criticality_level \in 6..14
           /\ base = <<2, 2, 2>> /\ sy = sys_Mechanical => Scored.ai_criticality_level = 6
           /\ base = <<4, 4, 5>> /\ sy \in FluidSystems => Scored.ai_criticality_level = 14

\* the upper bound: a critical keyword on a pneumatic system
C16_WitnessUpper ==
    /\ ScorerCalled
    /\ call.args[1].description = join(<<word_LEAK>>)
    /\ call.args[1].systeme = sys_pneumatic
    /\ Scored.ai_criticality_level = 14

(***************************************************************************)
(* Repeated calls: the process of Spec on a few artifacts, with direct     *)
(* calls of the scorer, where a returning single-record call may be        *)
(* remembered in `prev` for comparison with a later one                    *)
(***************************************************************************)
RepeatArtifacts ==
    {Artifact(FALSE, FALSE, PyNone),
     Artifact(TRUE, TRUE, SklearnEstimator("rowwise", NoPrediction, 0, 4)),
     Artifact(TRUE, TRUE, Bundle(SklearnEstimator("rowwise", NoPrediction, 0, 4))),
     Artifact(TRUE, TRUE, Bundle(SklearnEstimator("rowwise", NoPrediction, 4, 3))),
     Artifact(TRUE, TRUE, Bundle(SklearnEstimator("rowwise", NoPrediction, 102, 4)))}

InitRepeat ==
    /\ artifact \in RepeatArtifacts
    /\ DEPENDENCIES_AVAILABLE \in BOOLEAN
    /\ PYTHONHASHSEED \in (IF DEPENDENCIES_AVAILABLE THEN HashSeeds ELSE {0})
    /\ predictor = PyNone
    /\ call = NoCall
    /\ prev = NoCall
    /\ threads = NoThreads
    /\ api = NoRequest

RuleScoreCall ==
    /\ predictor.type = "TAMSPredictor"
    /\ call.op = "none"
    /\ \E anomaly_data \in RecordSet :
          call' = Call("_fallback_prediction", <<anomaly_data>>, NoFail, NoMatrix, NoPrediction,
                       Ok(_fallback_prediction(predictor, anomaly_data)))
    /\ UNCHANGED <<artifact, DEPENDENCIES_AVAILABLE, PYTHONHASHSEED, predictor, prev, threads, api>>

Remember ==
    /\ call.op \in {"_fallback_prediction", "predict_single"}
    /\ ReturnCall
    /\ prev' = call
    /\ UNCHANGED <<threads, api>>

NextRepeat == Load \/ RuleScoreCall \/ PredictSingle \/ PredictBatch \/ Return \/ Remember

SpecRepeat == InitRepeat /\ [][NextRepeat]_vars

SeenValues == {EQ0, EQ1, EQ2, sys_Air, sys_Electrical, sys_Hydraulic}
ExpectedCode(value) ==
    CASE value \in {EQ0, sys_Air} -> 0
      [] value \in {EQ1, sys_Electrical} -> 1
      [] value \in {EQ2, sys_Hydraulic} -> 2
      [] OTHER -> 0

\* C10: with a bundle loaded and a category value the encoder never saw, the
\* call does not raise, the matrix is the bundle's, with 0 for the unseen value
\* and the fitted codes for the others, the estimator's scorable rows are the
\* results, and a repetition of the call hands back the same result
C10_UnseenCategory ==
    (/\ predictor.type = "TAMSPredictor"
     /\ SingleCalled \/ BatchCalled
     /\ use_model(predictor, DEPENDENCIES_AVAILABLE) /\ has_bundle(predictor)
     /\ call.env = NoFail
     /\ \E i \in DOMAIN call.args :
           {call.args[i].num_equipement, call.args[i].systeme} \ SeenValues # {})
    => /\ ~call.ret.exc
       /\ call.X.shape = <<Len(call.args), 4>>
       /\ \A i \in DOMAIN call.args :
             /\ call.X.rows[i][1] = ExpectedCode(call.args[i].num_equipement)
             /\ call.X.rows[i][2] = ExpectedCode(call.args[i].systeme)
       /\ call.prediction = model_predict(predictor.model, call.X)
       /\ (/\ ModelAnswered
           /\ Len(call.prediction.rows) = Len(call.args)
           /\ \A i \in DOMAIN call.prediction.rows : RowScorable(call.prediction.rows[i]))
          => \A i \in DOMAIN call.args :
                Results[i] = scores_from_values(call.prediction.rows[i]).val
       /\ (prev.op = call.op /\ prev.args = call.args /\ prev.env = call.env)
          => prev.ret = call.ret

\* a record with unseen equipment and system scored twice by the estimator
\* of a bundle, not by rule
C10_Witness ==
    /\ SingleCalled /\ call.args = <<RecC>> /\ call.env = NoFail
    /\ has_bundle(predictor) /\ ModelAnswered
    /\ call.X.rows = << <<0, 0, 0, 0>> >>
    /\ call.ret = Ok(ScoreResult(1, 1, 1, 3))
    /\ call.ret.val # RuleScore(RecC)
    /\ prev.op = "predict_single" /\ prev.args = call.args /\ prev.env = call.env

(***************************************************************************)
(* The Model Loader on many artifacts: objects with every combination of   *)
(* the attributes _validate_model and __init__ look at, mappings, lists    *)
(* and tuples of up to MaxItems entries, bundles with and without usable   *)
(* components; after construction, single calls                            *)
(***************************************************************************)
ClassNames == {"MultiOutputRegressor", "XGBRegressor", "Wrapper"}

LoaderObjects ==
    {Estimator(hp, cp, tr, cn, sb, "rowwise", NoPrediction, 0, 4) :
        hp \in BOOLEAN, cp \in BOOLEAN, tr \in BOOLEAN, cn \in ClassNames, sb \in BOOLEAN}
    \ {o \in {Estimator(FALSE, TRUE, tr, cn, sb, "rowwise", NoPrediction, 0, 4) :
                tr \in BOOLEAN, cn \in ClassNames, sb \in BOOLEAN} : TRUE}

model_first == SklearnEstimator("rowwise", NoPrediction, 0, 4)
model_second == SklearnEstimator("rowwise", NoPrediction, 0, 3)
ContainerValues == {model_first, model_second, JunkObject}
DictKeys == {"model", "regressor", "pipeline", "aux"}

ItemSeqs ==
    {items \in SeqsUpTo({Item(k, v) : k \in DictKeys, v \in ContainerValues}, MaxItems) :
        \A i, j \in DOMAIN items : i # j => items[i].key # items[j].key}
ValueSeqs == SeqsUpTo(ContainerValues, MaxItems)

BundleWith(model, label_encoders, vectorizer) ==
    PyDict(<<Item("model", model), Item("label_encoders", label_encoders),
             Item("vectorizer", vectorizer)>>)

LoaderBundles ==
    {BundleWith(model_first, le, vec) :
        le \in {label_encoders_fitted, PyDict(<<>>), PyInt(5), PyNone},
        vec \in {vectorizer_fitted, PyNone}}

LoaderArtifacts ==
    {Artifact(FALSE, FALSE, PyNone), Artifact(TRUE, FALSE, PyNone),
     Artifact(TRUE, TRUE, PyNone), Artifact(TRUE, TRUE, PyInt(5)),
     Artifact(TRUE, TRUE, PyDict(<<Item("aux", PyDict(<<Item("model", model_first)>>))>>))}
    \cup {Artifact(TRUE, TRUE, o) : o \in LoaderObjects}
    \cup {Artifact(TRUE, TRUE, PyDict(items)) : items \in ItemSeqs}
    \cup {Artifact(TRUE, TRUE, PyList(items)) : items \in ValueSeqs}
    \cup {Artifact(TRUE, TRUE, PyTuple(items)) : items \in ValueSeqs}
    \cup {Artifact(TRUE, TRUE, b) : b \in LoaderBundles}

InitLoader ==
    /\ artifact \in LoaderArtifacts
    /\ DEPENDENCIES_AVAILABLE = TRUE
    /\ PYTHONHASHSEED = 0
    /\ predictor = PyNone
    /\ call = NoCall
    /\ prev = NoCall
    /\ threads = NoThreads
    /\ api = NoRequest

NextLoader == Load \/ PredictSingle \/ Return

SpecLoader == InitLoader /\ [][NextLoader]_vars

(***************************************************************************)
(* Claims about the Model Loader                                           *)
(***************************************************************************)
Constructed == predictor.type # "NoneType"
Deserialized == artifact.exists /\ artifact.loads

\* the validity predicate as the specification words it
HasCallablePredict(o) == o.type = "object" /\ o.has_predict /\ o.callable_predict

StandardKeys == <<"model", "estimator", "classifier", "regressor", "predictor">>

\* the object the stated precedence selects from a deserialized artifact
Selected(obj) ==
    IF HasCallablePredict(obj) THEN obj
    ELSE IF obj.type = "dict"
    THEN LET std == {k \in DOMAIN StandardKeys :
                        \E i \in DOMAIN obj.items :
                            /\ obj.items[i].key = StandardKeys[k]
                            /\ HasCallablePredict(obj.items[i].value)}
             any == {i \in DOMAIN obj.items : HasCallablePredict(obj.items[i].value)}
         IN IF std # {}
            THEN LET k == CHOOSE x \in std : \A y \in std : x <= y
                 IN obj.items[CHOOSE i \in DOMAIN obj.items :
                                  obj.items[i].key = StandardKeys[k]].value
            ELSE IF any # {}
            THEN obj.items[CHOOSE x \in any : \A y \in any : x <= y].value
            ELSE PyNone
    ELSE IF obj.type \in {"list", "tuple"}
    THEN LET any == {i \in DOMAIN obj.items : HasCallablePredict(obj.items[i])}
         IN IF any # {} THEN obj.items[CHOOSE x \in any : \A y \in any : x <= y] ELSE PyNone
    ELSE PyNone

NoModelHeld == predictor.model.type = "NoneType" /\ predictor.model_loaded = FALSE

\* C13: construction never raises; a missing file, a file that fails to
\* deserialize and an artifact without valid estimator leave an engine without
\* model, whose calls hand back the Rule-Based Score
C13_ConstructionCompletes ==
    Constructed =>
        /\ predictor.type = "TAMSPredictor"
        /\ (~artifact.exists \/ ~artifact.loads \/ Selected(artifact.obj).type = "NoneType") =>
              /\ NoModelHeld
              /\ SingleCalled => call.ret = Ok(RuleScore(call.args[1]))

\* an engine constructed on a file joblib.load raised on, and called
C13_Witness ==
    /\ predictor.type = "TAMSPredictor" /\ artifact.exists /\ ~artifact.loads
    /\ NoModelHeld
    /\ SingleCalled /\ call.ret = Ok(RuleScore(call.args[1]))

\* the artifact is not a mapping whose label_encoders entry has no length
\* (that entry makes the constructor drop the model it extracted)
ComponentsUsable(obj) ==
    obj.type = "dict" =>
        \A i \in DOMAIN obj.items :
            obj.items[i].key = "label_encoders" =>
                obj.items[i].value.type \in {"dict", "list", "tuple"}

\* C17: the model held after construction is the one the stated precedence
\* selects from the artifact
C17_ExtractionPrecedence ==
    Constructed /\ Deserialized /\ ComponentsUsable(artifact.obj) =>
        LET selected == Selected(artifact.obj)
        IN IF selected.type = "object" /\ selected.truthy
           THEN predictor.model = selected /\ predictor.model_loaded
           ELSE predictor.model.type = "NoneType"

\* a mapping with an invalid value under `model` and valid values under a
\* non-standard key and a later standard key, in that insertion order
C17_Witness ==
    /\ Constructed
    /\ artifact.obj = PyDict(<<Item("pipeline", model_first), Item("regressor", model_second)>>)
    /\ predictor.model = model_second

\* C18 as stated: an object that is not a mapping and has a callable predict
\* is admitted whatever its other attributes; a mapping or an object without
\* callable predict is never admitted
C18_AdmissionByPredictOnly ==
    Constructed /\ Deserialized =>
        /\ HasCallablePredict(artifact.obj) =>
              predictor.model = artifact.obj /\ predictor.model_loaded
        /\ predictor.model.type # "dict"
        /\ predictor.model.type = "object" => HasCallablePredict(predictor.model)

\* C19 as stated: model_loaded exactly when a model is held, and without model
\* no label encoders (none, or an empty collection) and no vectorizer
C19_ModelOrNothing ==
    Constructed =>
        /\ predictor.model_loaded <=> predictor.model.type # "NoneType"
        /\ predictor.model.type = "NoneType" =>
              /\ predictor.label_encoders \in {PyDict(<<>>), PyNone}
              /\ predictor.vectorizer.type = "NoneType"

(***************************************************************************)
(* Re-validation at call time: the process of Spec where, between load and *)
(* a call, other code of the process may assign the public attribute       *)
(* predictor.model (the instance is a module-level global)                 *)
(***************************************************************************)
\* an object whose predict attribute is not callable
predict_not_callable ==
    Estimator(TRUE, FALSE, TRUE, "MultiOutputRegressor", TRUE, "const", PredictRaises, 0, 0)

PoisonedHandles == {JunkObject, predict_not_callable}

RecheckArtifacts ==
    {Artifact(FALSE, FALSE, PyNone),
     Artifact(TRUE, TRUE, SklearnEstimator("rowwise", NoPrediction, 0, 4)),
     Artifact(TRUE, TRUE, SklearnEstimator("const", Prediction("arr2", 3, <<row_low3>>), 0, 0)),
     Artifact(TRUE, TRUE, Bundle(SklearnEstimator("rowwise", NoPrediction, 4, 3)))}

InitRecheck ==
    /\ artifact \in RecheckArtifacts
    /\ DEPENDENCIES_AVAILABLE \in BOOLEAN
    /\ PYTHONHASHSEED \in (IF DEPENDENCIES_AVAILABLE THEN HashSeeds ELSE {0})
    /\ predictor = PyNone
    /\ call = NoCall
    /\ prev = NoCall
    /\ threads = NoThreads
    /\ api = NoRequest

\* predictor.model = handle, assigned between two calls; model_loaded keeps
\* the value the constructor gave it
Poison ==
    /\ predictor.type = "TAMSPredictor"
    /\ call.op = "none"
    /\ predictor.model \notin PoisonedHandles
    /\ \E handle \in PoisonedHandles : predictor' = [predictor EXCEPT !.model = handle]
    /\ UNCHANGED <<artifact, DEPENDENCIES_AVAILABLE, PYTHONHASHSEED, call, prev, threads, api>>

NextRecheck == Load \/ Poison \/ PredictSingle \/ PredictBatch \/ Return

SpecRecheck == InitRecheck /\ [][NextRecheck]_vars

(***************************************************************************)
(* Claims about the entry condition of the model branch                    *)
(***************************************************************************)
\* the call handed X to the estimator's predict
EstimatorInvoked == call.prediction.kind # "none"

\* C20: a call invokes the estimator only if a model is held, model_loaded is
\* set and the held object has a callable predict at the time of the call;
\* with a held object that no longer has one, the estimator is not invoked and
\* the call hands back the Rule-Based Score
C20_CallTimeRevalidation ==
    SingleCalled \/ BatchCalled =>
        /\ EstimatorInvoked =>
              /\ predictor.model.type # "NoneType"
              /\ predictor.model_loaded
              /\ HasCallablePredict(predictor.model)
        /\ predictor.model.type # "NoneType" /\ ~HasCallablePredict(predictor.model) =>
              /\ ~EstimatorInvoked
              /\ SingleCalled => call.ret = Ok(RuleScore(call.args[1]))
              /\ BatchCalled => call.ret = Ok(RuleScores(call.args))

\* a batch scored by an engine whose loaded model was replaced by an object
\* with a predict attribute that is not callable
C20_Witness ==
    /\ BatchCalled /\ Len(call.args) >= 2
    /\ DEPENDENCIES_AVAILABLE /\ predictor.model_loaded
    /\ predictor.model = predict_not_callable
    /\ TAMSPredictor(artifact).model_loaded
    /\ ~EstimatorInvoked
    /\ call.ret = Ok(RuleScores(call.args))

(***************************************************************************)
(* Concurrent calls: MaxThreads request threads share the one `predictor`  *)
(* of the process.  A thread's call advances statement by statement, each  *)
(* statement reading the shared object as it is at that moment; the steps  *)
(* of different threads interleave freely                                  *)
(***************************************************************************)
\* one thread's call: its position, its arguments and its local variables
Frame(pc, op, args, env, X, prediction, ret) ==
    [pc |-> pc, op |-> op, args |-> args, env |-> env, X |-> X,
     prediction |-> prediction, ret |-> ret]
IdleFrame == Frame("idle", "none", <<>>, NoFail, NoMatrix, NoPrediction, Ok(<<>>))

\* the next statement of the call in `frame`, run on the shared object `self`:
\*   check    lines 369, 441   the entry condition of the model branch
\*   features lines 372, 444   X = self._prepare_features(...)
\*   predict  lines 375, 447   self.model.predict(X)
\*   convert  lines 379-434, 449-507   conversion, and the handler when
\*            something raised
\*   fallback lines 430, 502   the rule-based branch
frame_step(self, deps, seed, frame) ==
    IF frame.pc = "check"
    THEN [frame EXCEPT !.pc = IF use_model(self, deps) THEN "features" ELSE "fallback"]
    ELSE IF frame.pc = "features"
    THEN [frame EXCEPT !.pc = "predict",
                       !.X = _prepare_features(self, seed, frame.args, frame.env)]
    ELSE IF frame.pc = "predict"
    THEN [frame EXCEPT !.pc = "convert", !.prediction = model_predict(self.model, frame.X)]
    ELSE IF frame.pc = "convert"
    THEN [frame EXCEPT
            !.pc = "done",
            !.ret = IF frame.op = "predict_single"
                    THEN single_try_except(self, frame.args[1],
                            IF frame.prediction.kind = "raise" THEN Raised
                            ELSE single_from_prediction(self, frame.args[1], frame.prediction))
                    ELSE batch_try_except(self, frame.args,
                            IF frame.prediction.kind = "raise" THEN Raised
                            ELSE batch_from_prediction(self, frame.args, frame.prediction))]
    ELSE [frame EXCEPT
            !.pc = "done",
            !.ret = IF frame.op = "predict_single"
                    THEN Ok(_fallback_prediction(self, frame.args[1]))
                    ELSE Ok(fallback_all(self, frame.args))]

\* an engine that switches its model off once the estimator has raised
engine_step_disarming(self, deps, seed, frame) ==
    [self |-> IF frame.pc = "convert" /\ frame.prediction.kind = "raise"
              THEN [self EXCEPT !.model_loaded = FALSE] ELSE self,
     frame |-> frame_step(self, deps, seed, frame)]

\* one statement of predict_single / predict_batch: the shared object after
\* it (no statement of lines 361-507 assigns an attribute of self) and the
\* thread's frame after it
engine_step(self, deps, seed, frame) ==
    [self |-> self, frame |-> frame_step(self, deps, seed, frame)]

MaxThreads == 2
Threads == 1..MaxThreads

ConcurrentArtifacts ==
    {Artifact(FALSE, FALSE, PyNone),
     Artifact(TRUE, TRUE, SklearnEstimator("const", Prediction("arr2", 3, <<row_low3, row_nan3>>), 0, 0)),
     Artifact(TRUE, TRUE, Bundle(SklearnEstimator("rowwise", NoPrediction, 4, 3)))}

ConcurrentBatches == {<<RecA, RecB>>, <<RecC>>}
ConcurrentEnvs == {env \in Envs : ~env.prep_fail /\ ~env.fb_fail}

InitConcurrent ==
    /\ artifact \in ConcurrentArtifacts
    /\ DEPENDENCIES_AVAILABLE \in BOOLEAN
    /\ PYTHONHASHSEED = 0
    /\ predictor = PyNone
    /\ call = NoCall
    /\ prev = NoCall
    /\ threads = [t \in Threads |-> IdleFrame]
    /\ api = NoRequest

\* a request thread enters predict_single
ThreadPredictSingle(t) ==
    /\ predictor.type = "TAMSPredictor"
    /\ threads[t].pc = "idle"
    /\ \E anomaly_data \in {RecA, RecC}, env \in ConcurrentEnvs :
          /\ env_applies(predictor, DEPENDENCIES_AVAILABLE, env)
          /\ threads' = [threads EXCEPT ![t] =
                Frame("check", "predict_single", <<anomaly_data>>, env,
                      NoMatrix, NoPrediction, Ok(<<>>))]
    /\ UNCHANGED <<artifact, DEPENDENCIES_AVAILABLE, PYTHONHASHSEED, predictor, call, prev, api>>

\* a request thread enters predict_batch
ThreadPredictBatch(t) ==
    /\ predictor.type = "TAMSPredictor"
    /\ threads[t].pc = "idle"
    /\ \E anomalies_data \in ConcurrentBatches, env \in ConcurrentEnvs :
          /\ env_applies(predictor, DEPENDENCIES_AVAILABLE, env)
          /\ threads' = [threads EXCEPT ![t] =
                Frame("check", "predict_batch", anomalies_data, env,
                      NoMatrix, NoPrediction, Ok(<<>>))]
    /\ UNCHANGED <<artifact, DEPENDENCIES_AVAILABLE, PYTHONHASHSEED, predictor, call, prev, api>>

\* a thread runs its next statement
ThreadStep(t) ==
    /\ threads[t].pc \in {"check", "features", "predict", "convert", "fallback"}
    /\ LET r == engine_step(predictor, DEPENDENCIES_AVAILABLE, PYTHONHASHSEED, threads[t])
       IN /\ predictor' = r.self
          /\ threads' = [threads EXCEPT ![t] = r.frame]
    /\ UNCHANGED <<artifact, DEPENDENCIES_AVAILABLE, PYTHONHASHSEED, call, prev, api>>

\* the thread's caller takes the result
ThreadReturn(t) ==
    /\ threads[t].pc = "done"
    /\ threads' = [threads EXCEPT ![t] = IdleFrame]
    /\ UNCHANGED <<artifact, DEPENDENCIES_AVAILABLE, PYTHONHASHSEED, predictor, call, prev, api>>

LoadShared == Construct /\ UNCHANGED <<prev, threads, api>>

NextConcurrent ==
    \/ LoadShared
    \/ \E t \in Threads : ThreadPredictSingle(t)
    \/ \E t \in Threads : ThreadPredictBatch(t)
    \/ \E t \in Threads : ThreadStep(t)
    \/ \E t \in Threads : ThreadReturn(t)

SpecConcurrent == InitConcurrent /\ [][NextConcurrent]_vars

(***************************************************************************)
(* Claims about concurrent calls                                           *)
(***************************************************************************)
\* what the call of `frame` hands back when it runs alone on the engine as
\* constructed
RunAlone(frame) ==
    IF frame.op = "predict_single"
    THEN predict_single(TAMSPredictor(artifact), DEPENDENCIES_AVAILABLE, PYTHONHASHSEED,
                        frame.args[1], frame.env)
    ELSE predict_batch(TAMSPredictor(artifact), DEPENDENCIES_AVAILABLE, PYTHONHASHSEED,
                       frame.args, frame.env)

\* C11: whatever the interleaving of the threads' calls, the engine keeps the
\* model, model_loaded, label_encoders and vectorizer it was constructed with,
\* and every finished call holds the result it gives when run alone
C11_CallsDoNotInterfere ==
    Constructed =>
        /\ predictor = TAMSPredictor(artifact)
        /\ \A t \in DOMAIN threads :
              threads[t].pc = "done" => threads[t].ret = RunAlone(threads[t])

\* two threads hold finished calls at once: one ended on the rule-based scores
\* after its estimator raised, the other, a batch of two, on the model's values
C11_Witness ==
    \E t, u \in DOMAIN threads :
        /\ t # u
        /\ threads[t].pc = "done" /\ threads[t].prediction.kind = "raise"
        /\ threads[u].pc = "done" /\ threads[u].prediction.kind = "arr2"
        /\ threads[u].op = "predict_batch" /\ Len(threads[u].args) = 2
        /\ threads[u].ret.val # fallback_all(predictor, threads[u].args)

(***************************************************************************)
(* The API: main.py's four storage endpoints, with file_processor.py.  A   *)
(* handler is one action: it validates or parses its input, calls the      *)
(* engine, stores the rows and answers; `api` holds what it did            *)
(***************************************************************************)
\* str.strip(): leading and trailing whitespace removed
Whitespace == {" ", "\t"}
SetMax(S) == CHOOSE x \in S : \A y \in S : x >= y
strip(text) ==
    LET kept == {i \in DOMAIN text : text[i] \notin Whitespace}
    IN IF kept = {} THEN <<>> ELSE SubSeq(text, SetMin(kept), SetMax(kept))

RaisedError(kind) == [exc |-> TRUE, val |-> None, kind |-> kind]

\* file_processor.py:65
required_fields == <<"num_equipement", "systeme", "description">>

\* FileProcessor.validate_anomaly_data, file_processor.py:62-80: `not data[field]`
\* is tested on the text as received, str(...).strip() is applied afterwards
validate_anomaly_data(data) ==
    IF \E i \in DOMAIN required_fields :
          required_fields[i] \notin DOMAIN data \/ data[required_fields[i]] = <<>>
    THEN RaisedError("ValueError")
    ELSE Ok([num_equipement |-> strip(data.num_equipement),
             systeme |-> strip(data.systeme),
             description |-> strip(data.description),
             date_detection |-> Get(data, "date_detection", <<>>),
             description_equipement |-> Get(data, "description_equipement", <<>>),
             section_proprietaire |-> Get(data, "section_proprietaire", <<>>)])

\* FileProcessor.prepare_for_database, file_processor.py:82-97
prepare_for_database(anomaly_data, predictions) ==
    [equipement_id |-> anomaly_data.num_equipement,
     description |-> anomaly_data.description,
     service |-> Get(anomaly_data, "section_proprietaire", <<>>),
     system_id |-> Get(anomaly_data, "systeme", <<>>),
     status |-> "nouvelle",
     source_origine |-> "api",
     ai_fiabilite_integrite_score |-> predictions.ai_fiabilite_integrite_score,
     ai_disponibilite_score |-> predictions.ai_disponibilite_score,
     ai_process_safety_score |-> predictions.ai_process_safety_score,
     ai_criticality_level |-> predictions.ai_criticality_level]

\* a cell of a parsed file: a text, or NaN for an empty cell
Cell(text) == [isna |-> FALSE, text |-> text]
NaCell == [isna |-> TRUE, text |-> <<>>]
\* df.fillna("") on one cell, file_processor.py:57
fillna_empty(cell) == IF cell.isna THEN <<>> ELSE cell.text

\* file_processor.py:31-38 (of the optional columns, the owner section)
file_column_mapping ==
    [c \in {"Num_equipement", "Systeme", "Description", "Section propriétaire"} |->
        IF c = "Num_equipement" THEN "num_equipement"
        ELSE IF c = "Systeme" THEN "systeme"
        ELSE IF c = "Description" THEN "description"
        ELSE "section_proprietaire"]
optional_columns == {"section_proprietaire"}

\* the frame pd.read_csv / pd.read_excel parses: its header and its rows
FileFrame(columns, rows) == [columns |-> columns, rows |-> rows]

\* FileProcessor._process_dataframe, file_processor.py:27-60
_process_dataframe(df) ==
    LET renamed(c) == IF c \in DOMAIN file_column_mapping THEN file_column_mapping[c] ELSE c
        columns == {renamed(c) : c \in df.columns}
        missing_columns == {c \in Range(required_fields) : c \notin columns}
        available_columns == Range(required_fields) \cup (optional_columns \cap columns)
        header(k) == CHOOSE c \in df.columns : renamed(c) = k
    IN IF missing_columns # {} THEN RaisedError("ValueError")
       ELSE Ok([i \in DOMAIN df.rows |->
                   [k \in available_columns |-> fillna_empty(df.rows[i][header(k)])]])

\* an uploaded file: the suffix of its name, whether the parser reads it, and
\* the frame it then yields
UploadFile(suffix, parses, df) == [suffix |-> suffix, parses |-> parses, df |-> df]

\* FileProcessor.process_csv_file / process_excel_file, file_processor.py:8-25:
\* every exception is raised again as a plain Exception
process_file(file) ==
    IF ~file.parses THEN RaisedError("Exception")
    ELSE LET r == _process_dataframe(file.df)
         IN IF r.exc THEN RaisedError("Exception") ELSE r

\* what a handler did: the status it answered with, the engine call it made
\* and the rows it stored
Response(endpoint, request, status, engine_op, engine_args, predictions, stored) ==
    [endpoint |-> endpoint, request |-> request, status |-> status, engine_op |-> engine_op,
     engine_args |-> engine_args, predictions |-> predictions, stored |-> stored]

\* zip(anomalies, predictions) through prepare_for_database, main.py:144-147
db_rows(anomalies_data, predictions_list) ==
    [i \in 1..min(Len(anomalies_data), Len(predictions_list)) |->
        prepare_for_database(anomalies_data[i], predictions_list[i])]

\* main.py:80-108
store_single_anomaly(self, deps, seed, anomaly, env, db_ok) ==
    LET validated == validate_anomaly_data(anomaly)
        anomaly_data == validated.val
        predictions == predict_single(self, deps, seed, anomaly_data, env).val
    IN IF validated.exc
       THEN Response("store/single", anomaly, 400, "none", <<>>, <<>>, <<>>)
       ELSE IF ~db_ok
       THEN Response("store/single", anomaly, 500, "predict_single", <<anomaly_data>>,
                     <<predictions>>, <<>>)
       ELSE Response("store/single", anomaly, 200, "predict_single", <<anomaly_data>>,
                     <<predictions>>, <<prepare_for_database(anomaly_data, predictions)>>)

\* the part the batch and file handlers share, main.py:140-163, 206-230:
\* predict_batch, the rows, the insert, the answer
predict_and_store(endpoint, request, self, deps, seed, anomalies_data, env, db_ok) ==
    LET predictions_list == predict_batch(self, deps, seed, anomalies_data, env).val
        stored_anomalies == IF db_ok THEN db_rows(anomalies_data, predictions_list) ELSE <<>>
    IN Response(endpoint, request, IF stored_anomalies = <<>> THEN 500 ELSE 200,
                "predict_batch", anomalies_data, predictions_list, stored_anomalies)

\* main.py:110-168; the HTTPException(400) of line 133 is raised inside the
\* try and caught by `except Exception` (line 167)
store_batch_anomalies(self, deps, seed, anomalies, env, db_ok) ==
    LET validated == [i \in DOMAIN anomalies |-> validate_anomaly_data(anomalies[i])]
    IN IF anomalies = <<>>
       THEN Response("store/batch", anomalies, 500, "none", <<>>, <<>>, <<>>)
       ELSE IF \E i \in DOMAIN validated : validated[i].exc
       THEN Response("store/batch", anomalies, 400, "none", <<>>, <<>>, <<>>)
       ELSE predict_and_store("store/batch", anomalies, self, deps, seed,
                              [i \in DOMAIN validated |-> validated[i].val], env, db_ok)

\* main.py:170-233 and 235-289: every exception, the HTTPExceptions of the
\* suffix test and of the empty file included, is answered with 500
store_from_file(endpoint, suffixes, self, deps, seed, file, env, db_ok) ==
    LET processed == process_file(file)
    IN IF file.suffix \notin suffixes \/ processed.exc \/ processed.val = <<>>
       THEN Response(endpoint, file, 500, "none", <<>>, <<>>, <<>>)
       ELSE predict_and_store(endpoint, file, self, deps, seed, processed.val, env, db_ok)

store_from_csv_file(self, deps, seed, file, env, db_ok) ==
    store_from_file("store/file/csv", {".csv"}, self, deps, seed, file, env, db_ok)

store_from_excel_file(self, deps, seed, file, env, db_ok) ==
    store_from_file("store/file/excel", {".xlsx", ".xls"}, self, deps, seed, file, env, db_ok)

\* request bodies and files
MaxRows == 2
text_blank == <<" ">>
text_padded == <<" ", "A", "i", "r", " ">>

AnomalyInput(num_equipement, systeme, description) ==
    [num_equipement |-> num_equipement, systeme |-> systeme, description |-> description,
     date_detection |-> <<>>, description_equipement |-> <<>>, section_proprietaire |-> <<>>]

AnomalyInputs ==
    {AnomalyInput(EQ1, sys_Hydraulic, desc_PressureDrop),
     AnomalyInput(EQ1, text_padded, desc_Rechecked),
     AnomalyInput(EQ1, sys_Hydraulic, <<>>),
     AnomalyInput(<<>>, sys_Hydraulic, desc_noise),
     AnomalyInput(EQ1, sys_Hydraulic, text_blank)}

FileHeaders ==
    {{"Num_equipement", "Systeme", "Description"},
     {"Num_equipement", "Systeme", "Description", "Section propriétaire"},
     {"Num_equipement", "Systeme"}}

FileRow(columns, num_equipement, systeme, description) ==
    [c \in columns |-> IF c = "Num_equipement" THEN num_equipement
                       ELSE IF c = "Systeme" THEN systeme
                       ELSE IF c = "Description" THEN description
                       ELSE NaCell]

FileRows(columns) ==
    {FileRow(columns, Cell(EQ1), Cell(sys_Hydraulic), Cell(desc_PressureDrop)),
     FileRow(columns, Cell(EQ2), Cell(sys_Electrical), NaCell),
     FileRow(columns, NaCell, Cell(text_blank), Cell(desc_noise))}

UploadFiles ==
    {UploadFile(suffix, TRUE, FileFrame(columns, rows)) :
        suffix \in {".csv", ".xlsx", ".txt"}, columns \in FileHeaders, rows \in {<<>>}}
    \cup {UploadFile(suffix, FALSE, FileFrame({}, <<>>)) : suffix \in {".csv", ".xls"}}
    \cup UNION {{UploadFile(suffix, TRUE, FileFrame(columns, rows)) :
                    suffix \in {".csv", ".xlsx"}, rows \in SeqsUpTo(FileRows(columns), MaxRows)} :
                columns \in FileHeaders}

ApiArtifacts ==
    {Artifact(FALSE, FALSE, PyNone),
     Artifact(TRUE, TRUE, SklearnEstimator("rowwise", NoPrediction, 0, 4))}

InitApi ==
    /\ artifact \in ApiArtifacts
    /\ DEPENDENCIES_AVAILABLE \in BOOLEAN
    /\ PYTHONHASHSEED = 0
    /\ predictor = PyNone
    /\ call = NoCall
    /\ prev = NoCall
    /\ threads = NoThreads
    /\ api = NoRequest

Serving == predictor.type = "TAMSPredictor" /\ api.endpoint = "none"

StoreSingle ==
    /\ Serving
    /\ \E anomaly \in AnomalyInputs, env \in Envs, db_ok \in BOOLEAN :
          /\ env_applies(predictor, DEPENDENCIES_AVAILABLE, env)
          /\ api' = store_single_anomaly(predictor, DEPENDENCIES_AVAILABLE, PYTHONHASHSEED,
                                         anomaly, env, db_ok)
    /\ UNCHANGED <<artifact, DEPENDENCIES_AVAILABLE, PYTHONHASHSEED, predictor, call, prev, threads>>

StoreBatch ==
    /\ Serving
    /\ \E anomalies \in SeqsUpTo(AnomalyInputs, MaxRows), env \in Envs, db_ok \in BOOLEAN :
          /\ env_applies(predictor, DEPENDENCIES_AVAILABLE, env)
          /\ api' = store_batch_anomalies(predictor, DEPENDENCIES_AVAILABLE, PYTHONHASHSEED,
                                          anomalies, env, db_ok)
    /\ UNCHANGED <<artifact, DEPENDENCIES_AVAILABLE, PYTHONHASHSEED, predictor, call, prev, threads>>

StoreCsv ==
    /\ Serving
    /\ \E file \in UploadFiles, env \in Envs, db_ok \in BOOLEAN :
          /\ env_applies(predictor, DEPENDENCIES_AVAILABLE, env)
          /\ api' = store_from_csv_file(predictor, DEPENDENCIES_AVAILABLE, PYTHONHASHSEED,
                                        file, env, db_ok)
    /\ UNCHANGED <<artifact, DEPENDENCIES_AVAILABLE, PYTHONHASHSEED, predictor, call, prev, threads>>

StoreExcel ==
    /\ Serving
    /\ \E file \in UploadFiles, env \in Envs, db_ok \in BOOLEAN :
          /\ env_applies(predictor, DEPENDENCIES_AVAILABLE, env)
          /\ api' = store_from_excel_file(predictor, DEPENDENCIES_AVAILABLE, PYTHONHASHSEED,
                                          file, env, db_ok)
    /\ UNCHANGED <<artifact, DEPENDENCIES_AVAILABLE, PYTHONHASHSEED, predictor, call, prev, threads>>

\* the response is sent; the next request is served
Respond ==
    /\ api.endpoint # "none"
    /\ api' = NoRequest
    /\ UNCHANGED <<artifact, DEPENDENCIES_AVAILABLE, PYTHONHASHSEED, predictor, call, prev, threads>>

LoadAtImport == Construct /\ UNCHANGED <<prev, threads, api>>

NextApi == LoadAtImport \/ StoreSingle \/ StoreBatch \/ StoreCsv \/ StoreExcel \/ Respond

SpecApi == InitApi /\ [][NextApi]_vars

(***************************************************************************)
(* Claims about the records the API hands to the engine                    *)
(***************************************************************************)
EngineCalled == api.engine_op # "none"

NonEmptyRequired(record) ==
    \A i \in DOMAIN required_fields :
        /\ required_fields[i] \in DOMAIN record
        /\ record[required_fields[i]] # <<>>

\* C12 as stated: every record an endpoint hands to predict_single or
\* predict_batch has non-empty num_equipement, systeme and description
C12_EngineGetsValidatedRecords ==
    EngineCalled =>
        \A i \in DOMAIN api.engine_args : NonEmptyRequired(api.engine_args[i])

(***************************************************************************)
(* Claims about the conversion of the estimator's output                   *)
(***************************************************************************)
\* the number of dimensions of the estimator's output, 0 when it is no array
Dimensions(p) ==
    IF p.kind \in {"arr1", "obj"} THEN 1
    ELSE IF p.kind = "arr2" THEN 2
    ELSE IF p.kind = "arr3" THEN 3
    ELSE 0

\* the values predict_single reads from an output of an accepted shape
AcceptedValues(p) ==
    IF Dimensions(p) = 2 /\ p.ncols >= 3 /\ Len(p.rows) >= 1 THEN p.rows[1]
    ELSE IF p.kind = "arr1" /\ Len(p.rows) >= 3 THEN [i \in DOMAIN p.rows |-> p.rows[i][1]]
    ELSE <<>>

\* 2-D with at least 3 columns and a row 0, or 1-D with at least 3 elements
AcceptedShape(p) ==
    \/ Dimensions(p) = 2 /\ p.ncols >= 3 /\ Len(p.rows) >= 1
    \/ Dimensions(p) = 1 /\ Len(p.rows) >= 3

\* C21: in predict_single, when the estimator answered, an output of an
\* accepted shape whose values can be rounded gives the scores of those
\* values, and an output of any other shape gives the Rule-Based Score
C21_ShapeHandling ==
    SingleCalled /\ ModelAnswered =>
        /\ AcceptedShape(call.prediction) /\ RowScorable(AcceptedValues(call.prediction)) =>
              call.ret = Ok(scores_from_values(AcceptedValues(call.prediction)).val)
        /\ ~AcceptedShape(call.prediction) =>
              call.ret = Ok(RuleScore(call.args[1]))

\* a 1-D output of three elements, scored from its values and not by rule
C21_Witness ==
    /\ SingleCalled /\ call.prediction.kind = "arr1" /\ Len(call.prediction.rows) = 3
    /\ call.ret = Ok(ScoreResult(2, 4, 5, 11))
    /\ call.ret.val # RuleScore(call.args[1])

\* the integers nearest to the float v (two of them when v is halfway)
Distance(k, v) == IF 2 * k >= v.h THEN 2 * k - v.h ELSE v.h - 2 * k
Nearest(v) ==
    LET around == ((v.h \div 2) - 1)..((v.h \div 2) + 2)
    IN {k \in around : \A j \in around : Distance(k, v) <= Distance(j, v)}
\* the scores `nearest integer, then clamp to 1..5` allows for v
NearestClamped(v) == {max(1, min(5, k)) : k \in Nearest(v)}

\* r holds, in the order reliability, availability, process-safety, a score
\* allowed for each of the first three values
RoundedInOrder(r, vals) ==
    /\ r.ai_fiabilite_integrite_score \in NearestClamped(vals[1])
    /\ r.ai_disponibilite_score \in NearestClamped(vals[2])
    /\ r.ai_process_safety_score \in NearestClamped(vals[3])

\* a batch call whose estimator answered a 2-D output, one scorable row per record
BatchAllScored ==
    /\ BatchCalled /\ call.prediction.kind = "arr2"
    /\ Len(call.prediction.rows) = Len(call.args)
    /\ \A i \in DOMAIN call.prediction.rows : RowScorable(call.prediction.rows[i])

\* C22: on the model path each of the three scores is a nearest integer of its
\* own value clamped to 1..5, in the order reliability, availability,
\* process-safety, and predict_single gives the scores predict_batch gives
\* for the same row
C22_RoundThenClamp ==
    /\ (/\ SingleCalled /\ ModelAnswered /\ AcceptedShape(call.prediction)
        /\ RowScorable(AcceptedValues(call.prediction)))
       => /\ ~call.ret.exc
          /\ RoundedInOrder(call.ret.val, AcceptedValues(call.prediction))
          /\ call.prediction.kind = "arr2" =>
                batch_item(predictor, call.args, call.prediction, 1) = call.ret
    /\ BatchAllScored
       => /\ ~call.ret.exc
          /\ \A i \in DOMAIN call.args :
                RoundedInOrder(call.ret.val[i], call.prediction.rows[i])

\* a batch answered row by row, one row holding a value below 1 (-1.5), a
\* halfway value (0.5) and a value above 5 (6.0), scored 1, 1, 5
C22_Witness ==
    /\ BatchAllScored /\ Len(call.args) >= 2
    /\ \E i \in DOMAIN call.args :
          /\ call.prediction.rows[i] = row_low3
          /\ call.ret.val[i] = ScoreResult(1, 1, 5, 7)

(***************************************************************************)
(* The Feature Builder on its own: _prepare_features called on lists of    *)
(* records that hold any of the fields, by engines with and without a      *)
(* bundle                                                                  *)
(***************************************************************************)
RecNoSysteme == [num_equipement |-> EQ1, description |-> desc_PressureDrop]
RecNoDescription == [num_equipement |-> EQ2, systeme |-> sys_Electrical]
RecOnlyDescription == [description |-> desc_noise]
FeatureRecords == {RecA, RecNoSysteme, RecNoDescription, RecOnlyDescription}

\* a bundle whose encoders are named `names`, in that order
encoders_named(names) ==
    PyDict([k \in DOMAIN names |->
              Item(names[k], LabelEncoder(<<EQ0, EQ1, EQ2, sys_Air, sys_Electrical>>))])

EncoderNames ==
    {<<"Num_equipement", "Systeme">>, <<"Systeme", "Zone">>, <<"Zone", "num_equipement">>}

FeatureArtifacts ==
    {Artifact(FALSE, FALSE, PyNone),
     Artifact(TRUE, TRUE, SklearnEstimator("rowwise", NoPrediction, 0, 3))}
    \cup {Artifact(TRUE, TRUE,
                   BundleWith(SklearnEstimator("rowwise", NoPrediction, 0, 3),
                              encoders_named(names), vectorizer_fitted)) :
            names \in EncoderNames}

InitFeatures ==
    /\ artifact \in FeatureArtifacts
    /\ DEPENDENCIES_AVAILABLE = TRUE
    /\ PYTHONHASHSEED \in HashSeeds
    /\ predictor = PyNone
    /\ call = NoCall
    /\ prev = NoCall
    /\ threads = NoThreads
    /\ api = NoRequest

\* self._prepare_features(data), lines 143-173, and what it calls
PrepareFeaturesCall ==
    /\ predictor.type = "TAMSPredictor"
    /\ call.op = "none"
    /\ \E data \in SeqsUpTo(FeatureRecords, MaxBatch), env \in Envs :
          /\ env.prep_fail => has_bundle(predictor)
          /\ env.saved_fail => (~env.prep_fail /\ has_bundle(predictor))
          /\ env.fb_fail => (env.prep_fail \/ ~has_bundle(predictor) \/ env.saved_fail)
          /\ call' = Call("_prepare_features", data, env,
                          _prepare_features(predictor, PYTHONHASHSEED, data, env),
                          NoPrediction, Ok(<<>>))
    /\ UNCHANGED <<artifact, DEPENDENCIES_AVAILABLE, PYTHONHASHSEED, predictor, prev, threads, api>>

NextFeatures == Load \/ PrepareFeaturesCall \/ Return

SpecFeatures == InitFeatures /\ [][NextFeatures]_vars

(***************************************************************************)
(* Claims about the feature matrix                                         *)
(***************************************************************************)
FeaturesCalled == call.op = "_prepare_features"

\* the fields the records of the call hold
FieldsPresent == UNION {DOMAIN call.args[i] : i \in DOMAIN call.args}

\* a field matches an encoder's name when they are equal up to case or the
\* alias table maps the field to the name
FieldMatches(field, name) ==
    \/ lower(spelling[field]) = lower(spelling[name])
    \/ field \in DOMAIN column_mapping /\ column_mapping[field] = name

\* the matrix was built from the bundle's encoders and vectorizer
BuiltFromBundle ==
    /\ FeaturesCalled /\ has_bundle(predictor)
    /\ ~call.env.prep_fail /\ ~call.env.saved_fail

Encoders == predictor.label_encoders.items

\* C23: with a bundle, the matrix has one row per record, and column k holds
\* for every record a code of the k-th encoder; when no field of the records
\* matches the encoder's name the column is all zeros
C23_OneColumnPerEncoder ==
    BuiltFromBundle =>
        /\ call.X.shape[1] = Len(call.args)
        /\ call.X.shape[2] - Len(Encoders) \in {Len(predictor.vectorizer.vocabulary), 100}
        /\ \A i \in DOMAIN call.args :
              /\ Len(call.X.rows[i]) = call.X.shape[2]
              /\ \A k \in DOMAIN Encoders :
                    /\ call.X.rows[i][k] \in 0..(Len(Encoders[k].value.classes) - 1)
                    /\ (\A f \in FieldsPresent : ~FieldMatches(f, Encoders[k].key))
                          => call.X.rows[i][k] = 0

\* two records without a systeme field, built by a bundle with encoders
\* for Systeme and Zone: both columns are zero
C23_Witness ==
    /\ BuiltFromBundle
    /\ call.args = <<RecNoSysteme, RecOnlyDescription>>
    /\ Encoders[1].key = "Systeme" /\ Encoders[2].key = "Zone"
    /\ \A i \in DOMAIN call.args : call.X.rows[i][1] = 0 /\ call.X.rows[i][2] = 0

\* a field the text block is read from: its name holds "desc"
DescriptionLike(field) == contains(lower(spelling[field]), <<"d","e","s","c">>)

\* C24 as stated: with a bundle whose vectorizer has W terms, the matrix is
\* W columns wider than the number of encoders whether or not the records
\* hold a description-like field, and without one the text block is all zeros
C24_TextBlockWidth ==
    BuiltFromBundle /\ Len(call.args) >= 1 =>
        /\ call.X.shape[2] = Len(Encoders) + Len(predictor.vectorizer.vocabulary)
        /\ (\A f \in FieldsPresent : ~DescriptionLike(f)) =>
              \A i \in DOMAIN call.args :
                 \A j \in (Len(Encoders) + 1)..Len(call.X.rows[i]) : call.X.rows[i][j] = 0

\* the matrix was built by the hashing scheme of an engine without bundle
BuiltWithoutBundle == FeaturesCalled /\ ~has_bundle(predictor)

\* C25 as stated: without a bundle the matrix of N records (N >= 1) has N
\* rows and 102 columns, two hashed columns with values in 0..999 and then 100
\* text columns, whichever fields the records hold
C25_FallbackShape ==
    BuiltWithoutBundle /\ ~call.env.fb_fail /\ Len(call.args) >= 1 =>
        /\ call.X.shape = <<Len(call.args), 102>>
        /\ \A i \in DOMAIN call.args :
              /\ Len(call.X.rows[i]) = 102
              /\ call.X.rows[i][1] \in 0..999
              /\ call.X.rows[i][2] \in 0..999

\* C26 as stated: when the hashing scheme fails internally on N records
\* (N >= 1), the matrix is all zeros with N rows and 102 columns
C26_FallbackFailureShape ==
    FeaturesCalled /\ call.env.fb_fail /\ Len(call.args) >= 1 =>
        /\ call.X.shape = <<Len(call.args), 102>>
        /\ \A i \in DOMAIN call.X.rows : \A j \in DOMAIN call.X.rows[i] : call.X.rows[i][j] = 0

(***************************************************************************)
(* Claims relating predict_batch to predict_single                         *)
(***************************************************************************)
\* C27: when the model branch is not entered, predict_batch on a list hands
\* back, at every position, what predict_single hands back for the record at
\* that position
C27_BatchAgreesWithSingle ==
    BatchCalled /\ ~use_model(predictor, DEPENDENCIES_AVAILABLE) =>
        /\ ~call.ret.exc
        /\ Len(call.ret.val) = Len(call.args)
        /\ \A i \in DOMAIN call.args :
              Ok(call.ret.val[i]) =
                 predict_single(predictor, DEPENDENCIES_AVAILABLE, PYTHONHASHSEED,
                                call.args[i], NoFail)

\* a batch of records with different scores on an engine that holds a model
\* but runs without the ML dependencies
C27_Witness ==
    /\ BatchCalled /\ predictor.model_loaded /\ ~DEPENDENCIES_AVAILABLE
    /\ Len(call.args) >= 2
    /\ call.ret.val[1] # call.ret.val[2]

(***************************************************************************)
(* Claims about the rows the API stores and the statuses it answers        *)
(***************************************************************************)
BatchEndpoints == {"store/batch", "store/file/csv", "store/file/excel"}

\* the database row carries the scores of the score result
CarriesScores(row, scores) ==
    /\ row.ai_fiabilite_integrite_score = scores.ai_fiabilite_integrite_score
    /\ row.ai_disponibilite_score = scores.ai_disponibilite_score
    /\ row.ai_process_safety_score = scores.ai_process_safety_score
    /\ row.ai_criticality_level = scores.ai_criticality_level

\* C28 as stated: when a batch or file endpoint stored its rows, there is one
\* row per record that reached the engine, and row i holds the equipment and
\* description of record i with the scores the engine produced for it
C28_OneRowPerRecord ==
    api.endpoint \in BatchEndpoints /\ EngineCalled /\ api.status = 200 =>
        /\ Len(api.stored) = Len(api.engine_args)
        /\ Len(api.predictions) = Len(api.engine_args)
        /\ \A i \in DOMAIN api.stored :
              /\ api.stored[i].equipement_id = api.engine_args[i].num_equipement
              /\ api.stored[i].description = api.engine_args[i].description
              /\ CarriesScores(api.stored[i], api.predictions[i])

\* C29 as stated: store/batch on an empty list answers 400 without prediction
\* or database write, and a file endpoint answers 400 for a file with a wrong
\* extension and for a file without data rows
C29_RejectionsAnswer400 ==
    /\ api.endpoint = "store/batch" /\ api.request = <<>> =>
          api.status = 400 /\ ~EngineCalled /\ api.stored = <<>>
    /\ api.endpoint = "store/file/csv" /\ api.request.suffix # ".csv" =>
          api.status = 400 /\ ~EngineCalled /\ api.stored = <<>>
    /\ api.endpoint = "store/file/excel" /\ api.request.suffix \notin {".xlsx", ".xls"} =>
          api.status = 400 /\ ~EngineCalled /\ api.stored = <<>>
    /\ (/\ api.endpoint \in {"store/file/csv", "store/file/excel"}
        /\ api.request.parses /\ api.request.df.rows = <<>>
        /\ Range(required_fields) \subseteq
              {file_column_mapping[c] : c \in api.request.df.columns})
       => api.status = 400 /\ ~EngineCalled /\ api.stored = <<>>

====
